---------------------------- MODULE Spec2Model ----------------------------
(***************************************************************************)
(* A model of fwpm: the workflow that turns issue records into a published *)
(* report page (src/fwpm_app/workflow.py), its HTML structure validator,   *)
(* the issue-text provider with its mention cache                          *)
(* (src/fwpm_app/issue_content.py), the storage renderer                   *)
(* (src/fwpm_app/renderers.py) and the email adapter.                      *)
(*                                                                         *)
(* The module holds several state machines over disjoint groups of         *)
(* variables; each specification drives one group and leaves the others at *)
(* their idle values.                                                      *)
(*   SpecValidator : _HTMLStructureValidator fed one parser event at a time*)
(*   SpecMention   : build_issue_text and Workflow._clean_text             *)
(*   SpecRecent    : Workflow._collect_recent_comments                     *)
(*   SpecRun       : Workflow.run and Workflow.run_with_placeholder        *)
(*   SpecEmail     : Workflow._enhance_email_html, applied twice           *)
(***************************************************************************)
EXTENDS Integers, Sequences, FiniteSets, TLC

VARIABLES
    \* ---- _HTMLStructureValidator (workflow.py 1211-1260)
    vInput,     \* the parser events of the document being validated
    vPos,       \* index of the next event HTMLParser.feed hands to a handler
    stack,      \* self.stack
    errors,     \* self.errors
    vClosed,    \* close() has run
    \* ---- DefaultIssueContentProvider (issue_content.py) and Workflow._clean_text
    mentionCache,   \* self._mention_cache: lower-cased identifier -> display name
    mIssue,         \* the issue of the last build_issue_text call
    mOut,           \* what that call extracted: description and comment bodies
    mPc,            \* build_issue_text: "idle" | "cached" (line 25 done) | "built"
    wfIn,           \* the last value given to Workflow._clean_text
    wfOut,          \* and its result
    \* ---- configuration
    ignoreFrom,                 \* defaults.IGNORE_COMMENTS_FROM
    comment_lookback_hours,     \* app_config.comment_lookback_hours
    validate_html,              \* Workflow.validate_html
    \* ---- Workflow._collect_recent_comments, one loop iteration at a time
    cComments,      \* fields.comment.comments of the issue
    cNow,           \* datetime.now(timezone.utc) read at line 464
    cPos,           \* index of the next comment of the loop
    cRecent,        \* the list `recent`: indices of the comments kept
    cReturned,      \* the function has returned
    cSkipped,       \* indices of the comments dropped at line 479 (ignored author)
    xPos,           \* index of the next comment of the loop of _extract_comments
    xFormatted,     \* the list `formatted` of _extract_comments, as indices
    \* ---- Workflow.run and Workflow.run_with_placeholder
    rMode,          \* "run" | "placeholder": which of the two main calls
    rLimit,         \* the limit argument (0 stands for None)
    rFound,         \* what the Jira filter search returns
    rIssues,        \* issues, after the limit
    rIdx,           \* index of the next issue of the round
    rNow,           \* the latest reading of the clock
    rClocks,        \* the clock reading of _collect_recent_comments, per issue
    rOutputs,       \* llm_outputs / placeholder_outputs
    rTrace,         \* the calls made on the Jira, LLM and Confluence clients
    rBody,          \* the rendered page body
    rCreatePage,    \* the bodies create_page was invoked with
    rPc,            \* position in run
    rError,         \* the exception that ended the call, "" if none
    \* ---- Workflow._enhance_email_html, applied once and then to its own output
    eInput,     \* candidate of the first call (rendered_html or storage_body)
    eCandidate, \* candidate of the call in progress
    ePass,      \* 1: the first call, 2: the call on the first call's output
    eStage,     \* position in the call
    eSoup,      \* soup
    eOut1,      \* what the first call returned
    eOut,       \* what the call in progress returned
    eError,     \* the exception that ended the call, "" if none
    \* ---- renderers.build_confluence_storage, called with the same arguments
    \*      more than once
    rdArgs,     \* the arguments and defaults.LABEL_STATUS_MAP
    rdTimes,    \* the clock reading of each call made so far
    rdOut,      \* what each call returned
    \* ---- Workflow._is_impediment
    iIssue,     \* the issue
    iCalled,    \* the call has been made
    iResult,    \* what it returned
    \* ---- Workflow._apply_status_styles
    kColour,    \* the colour argument
    kSubtle,    \* the subtle argument
    kCalled,    \* the call has been made
    kStyle,     \* the colours it applied: bg, text_colour, border
    \* ---- Workflow._comment_text and
    \*      DefaultIssueContentProvider._extract_comment_body on one comment
    aComment,       \* the comment: body and renderedBody
    aCommentText,   \* what Workflow._comment_text did
    aCommentBody,   \* what DefaultIssueContentProvider._extract_comment_body did
    aWorkflowAdf,   \* what Workflow._extract_adf_text did on the body
    aProviderAdf,   \* what DefaultIssueContentProvider._extract_adf_text did
    \* ---- Workflow._extract_field_values, _product_names, _customer_names
    fIssue,         \* the fields customfield_10719 and customfield_23301
    fCalled,        \* _extract_field_values has been called on the first
    fValues,        \* what it returned
    fProduct,       \* what _product_names returned
    fCustomer,      \* what _customer_names returned
    \* ---- Workflow._persist_prompt, _persist_llm_response, _persist_confluence_body
    pText,          \* the text handed to the three functions
    pKey,           \* the issue key
    pPrompt,        \* the file under output/prompts
    pResponse,      \* the file under output/responses
    pBody,          \* the file output/confluence/page.html
    \* ---- JiraClient.search_issues, one request at a time
    jServer,        \* the issues the server holds for the query, in its order
    jPageSize,      \* the most issues the server puts into one answer
    jStartAt,       \* start_at
    jIssues,        \* issues
    jBatch,         \* len(batch) of the last answer
    jTotal,         \* total of the last answer
    jRequests,      \* startAt of every request, with len(issues) at that time
    jPc,            \* "idle" | "loop" | "returned"
    \* ---- ConfluenceClient.create_page
    sPages,         \* the pages the server holds
    sBefore,        \* the pages it held when create_page was called
    sArgs,          \* space_key, parent_page_id, title, body_storage
    sExisting,      \* existing: what _fetch_page returned
    sPc             \* "idle" | "fetch" | "fetched" | "updated" | "created" | "failed"

valVars == <<vInput, vPos, stack, errors, vClosed>>

recVars == <<cComments, cNow, cPos, cRecent, cReturned, cSkipped, xPos, xFormatted>>

runVars ==
    <<rMode, rLimit, rFound, rIssues, rIdx, rNow, rClocks, rOutputs, rTrace,
      rBody, rCreatePage, rPc, rError>>

cfgVars == <<ignoreFrom, comment_lookback_hours, validate_html>>

menVars == <<mentionCache, mIssue, mOut, mPc, wfIn, wfOut>>

emlVars == <<eInput, eCandidate, ePass, eStage, eSoup, eOut1, eOut, eError>>

rndVars == <<rdArgs, rdTimes, rdOut>>

impVars == <<iIssue, iCalled, iResult>>

colVars == <<kColour, kSubtle, kCalled, kStyle>>

adfVars == <<aComment, aCommentText, aCommentBody, aWorkflowAdf, aProviderAdf>>

fieldVars == <<fIssue, fCalled, fValues, fProduct, fCustomer>>

perVars == <<pText, pKey, pPrompt, pResponse, pBody>>

searchVars == <<jServer, jPageSize, jStartAt, jIssues, jBatch, jTotal, jRequests, jPc>>

pageVars == <<sPages, sBefore, sArgs, sExisting, sPc>>

extVars == <<adfVars, fieldVars, perVars, searchVars, pageVars>>

OldVars ==
    <<valVars, menVars, cfgVars, recVars, runVars, emlVars, rndVars, impVars, colVars>>

AllButAdf == <<OldVars, fieldVars, perVars, searchVars, pageVars>>

AllButField == <<OldVars, adfVars, perVars, searchVars, pageVars>>

AllButPersist == <<OldVars, adfVars, fieldVars, searchVars, pageVars>>

AllButSearch == <<OldVars, adfVars, fieldVars, perVars, pageVars>>

AllButPage == <<OldVars, adfVars, fieldVars, perVars, searchVars>>

fnVars == <<rndVars, impVars, colVars, extVars>>

vars == <<valVars, menVars, cfgVars, recVars, runVars, emlVars, fnVars>>

(***************************************************************************)
(* Generic helpers                                                         *)
(***************************************************************************)
SeqsUpTo(S, n) == UNION {[1..k -> S] : k \in 0..n}

RECURSIVE Reverse(_)
Reverse(s) == IF s = <<>> THEN <<>> ELSE Append(Reverse(Tail(s)), Head(s))

Front(s) == SubSeq(s, 1, Len(s) - 1)

Last(s) == s[Len(s)]

(***************************************************************************)
(* Text: a Python str is a sequence of one-character strings.              *)
(***************************************************************************)
NoText == <<>>      \* None, a missing key and "" alike: every test on these
                    \* values in the source is a truthiness test

UpperLetters ==
    <<"A", "B", "C", "D", "E", "F", "G", "H", "I", "J", "K", "L", "M",
      "N", "O", "P", "Q", "R", "S", "T", "U", "V", "W", "X", "Y", "Z">>

LowerLetters ==
    <<"a", "b", "c", "d", "e", "f", "g", "h", "i", "j", "k", "l", "m",
      "n", "o", "p", "q", "r", "s", "t", "u", "v", "w", "x", "y", "z">>

LowerOf == [c \in {UpperLetters[i] : i \in 1..26} |->
               LowerLetters[CHOOSE i \in 1..26 : UpperLetters[i] = c]]

UpperOf == [c \in {LowerLetters[i] : i \in 1..26} |->
               UpperLetters[CHOOSE i \in 1..26 : LowerLetters[i] = c]]

\* str.lower() and str.upper(), character by character
LowerChar(c) == IF c \in DOMAIN LowerOf THEN LowerOf[c] ELSE c

UpperChar(c) == IF c \in DOMAIN UpperOf THEN UpperOf[c] ELSE c

Lower(t) == [i \in 1..Len(t) |-> LowerChar(t[i])]

Upper(t) == [i \in 1..Len(t) |-> UpperChar(t[i])]

RECURSIVE LStrip(_)
LStrip(t) == IF t # <<>> /\ Head(t) = " " THEN LStrip(Tail(t)) ELSE t

RECURSIVE RStrip(_)
RStrip(t) == IF t # <<>> /\ Last(t) = " " THEN RStrip(Front(t)) ELSE t

Strip(t) == RStrip(LStrip(t))

RECURSIVE Concat(_)
Concat(ss) == IF ss = <<>> THEN <<>> ELSE Head(ss) \o Concat(Tail(ss))

(***************************************************************************)
(* Mention tokens                                                          *)
(***************************************************************************)
TextChars ==
    {"[", "~", "]", ":", " ", "x", "u", "U", "1", "2", "5",
     "a", "c", "o", "n", "t", "i", "d", "A", "l", "B", "C", "y", "D"}

\* [\w@\.\-] of issue_content.py line 157
IdentifierChars == (TextChars \ {"[", "~", "]", ":", " "}) \cup {"@", ".", "-", "_"}

\* [^\]] of workflow.py line 655
NotBracketChars == TextChars \ {"]"}

MentionOpen == <<"[", "~">>
AccountIdPrefix == <<"a", "c", "c", "o", "u", "n", "t", "i", "d", ":">>

HasAt(t, i, lit) ==
    /\ i + Len(lit) - 1 <= Len(t)
    /\ SubSeq(t, i, i + Len(lit) - 1) = lit

\* the end of the longest run of class characters that starts at j (greedy +)
RECURSIVE RunEnd(_, _, _)
RunEnd(t, j, class) ==
    IF j <= Len(t) /\ t[j] \in class THEN RunEnd(t, j + 1, class) ELSE j

NoMatch == [ok |-> FALSE, id |-> <<>>, end |-> 0]

\* (class)+\] tried at j; a shorter run cannot match, "]" is in neither class
TryIdentifier(t, j, class) ==
    LET e == RunEnd(t, j, class)
    IN  IF e > j /\ e <= Len(t) /\ t[e] = "]"
        THEN [ok |-> TRUE, id |-> SubSeq(t, j, e - 1), end |-> e + 1]
        ELSE NoMatch

\* \[~(?:accountid:)?(class+)\] tried at i: the optional prefix is taken first
\* and given back when the rest does not match
MatchMention(t, i, class) ==
    IF ~HasAt(t, i, MentionOpen) THEN NoMatch
    ELSE LET j == i + Len(MentionOpen)
             withPrefix ==
                 IF HasAt(t, j, AccountIdPrefix)
                 THEN TryIdentifier(t, j + Len(AccountIdPrefix), class)
                 ELSE NoMatch
         IN  IF withPrefix.ok THEN withPrefix ELSE TryIdentifier(t, j, class)

\* cache.get(identifier.lower()) or identifier
MentionDisplay(cache, id) ==
    IF Lower(id) \in DOMAIN cache /\ cache[Lower(id)] # NoText
    THEN cache[Lower(id)]
    ELSE id

\* pattern.sub(repl, text): leftmost matches, left to right, without overlap
RECURSIVE SubMentions(_, _, _, _)
SubMentions(t, i, class, cache) ==
    IF i > Len(t) THEN <<>>
    ELSE LET m == MatchMention(t, i, class)
         IN  IF m.ok
             THEN MentionDisplay(cache, m.id) \o SubMentions(t, m.end, class, cache)
             ELSE <<t[i]>> \o SubMentions(t, i + 1, class, cache)

EmptyCache == [k \in {} |-> NoText]

\* DefaultIssueContentProvider._replace_mentions
replace_mentions(text, cache) == SubMentions(text, 1, IdentifierChars, cache)

\* BeautifulSoup(value).get_text("\n", strip=True) on markup-free text of one
\* line: a single text node, stripped
get_text(value) == Strip(value)

\* DefaultIssueContentProvider._clean_html
clean_html(value, cache) ==
    IF value = NoText THEN NoText
    ELSE replace_mentions(get_text(value), cache)

\* Workflow._clean_text: re.sub(pattern, r"\1", text), no cache is consulted
clean_text(value) ==
    IF value = NoText THEN NoText
    ELSE Strip(SubMentions(get_text(value), 1, NotBracketChars, EmptyCache))

(***************************************************************************)
(* Authors, issues and the display-name cache                              *)
(***************************************************************************)
AuthorRec(dn, acc, nm, ky, em) ==
    [displayName |-> dn, accountId |-> acc, name |-> nm, key |-> ky,
     emailAddress |-> em]

\* no author object at all; it writes nothing, like one with no field set
NoAuthor == AuthorRec(NoText, NoText, NoText, NoText, NoText)

AuthorAl    == AuthorRec(<<"A", "l">>, <<"u", "1">>, NoText, NoText, NoText)
AuthorBo    == AuthorRec(<<"B", "o">>, NoText, <<"U", "2">>, NoText, NoText)
AuthorCy    == AuthorRec(<<"C", "y">>, NoText, NoText, <<"U", "1">>, NoText)
AuthorDi    == AuthorRec(<<"D", "i">>, <<"5", ":", "u">>, NoText, NoText, NoText)
AuthorNoName == AuthorRec(NoText, <<"u", "2">>, NoText, NoText, NoText)

AuthorEm    == AuthorRec(<<"E", "m">>, NoText, NoText, NoText, <<"E", "@", "X">>)

AuthorIds(a) == <<a.accountId, a.name, a.key, a.emailAddress>>

\* (mutant) an identifier that is already in the cache is left alone
RECURSIVE CacheIds_FirstWins(_, _, _)
CacheIds_FirstWins(cache, ids, dn) ==
    IF ids = <<>> THEN cache
    ELSE LET id == Head(ids)
             next == IF id # NoText /\ Lower(id) \notin DOMAIN cache
                     THEN [k \in DOMAIN cache \cup {Lower(id)} |->
                              IF k = Lower(id) THEN dn ELSE cache[k]]
                     ELSE cache
         IN  CacheIds_FirstWins(next, Tail(ids), dn)

\* the inner loop of _build_display_name_cache for one author
RECURSIVE CacheIds(_, _, _)
CacheIds(cache, ids, dn) ==
    IF ids = <<>> THEN cache
    ELSE LET id == Head(ids)
             next == IF id # NoText
                     THEN [k \in DOMAIN cache \cup {Lower(id)} |->
                              IF k = Lower(id) THEN dn ELSE cache[k]]
                     ELSE cache
         IN  CacheIds(next, Tail(ids), dn)

RECURSIVE CacheAuthors(_, _)
CacheAuthors(cache, authors) ==
    IF authors = <<>> THEN cache
    ELSE LET a == Head(authors)
         IN  CacheAuthors(
                 IF a.displayName = NoText THEN cache
                 ELSE CacheIds(cache, AuthorIds(a), a.displayName),
                 Tail(authors))

\* assignee, reporter, then the comment authors in list order
AuthorFields(issue) ==
    <<issue.assignee, issue.reporter>>
        \o [i \in 1..Len(issue.comments) |-> issue.comments[i].author]

\* (mutant) the cache is rebuilt from nothing for every issue
build_display_name_cache_Fresh(cache, issue) ==
    CacheAuthors(EmptyCache, AuthorFields(issue))

\* DefaultIssueContentProvider._build_display_name_cache: the cache object is
\* created once (getattr ... is None) and only ever added to
build_display_name_cache(cache, issue) ==
    CacheAuthors(cache, AuthorFields(issue))

(***************************************************************************)
(* Input texts: up to MaxPieces pieces, each plain text or a mention token *)
(***************************************************************************)
MaxPieces == 2

PlainPiece(t) == [mention |-> FALSE, prefix |-> FALSE, t |-> t]
MentionPiece(pfx, id) == [mention |-> TRUE, prefix |-> pfx, t |-> id]

Pieces ==
    {PlainPiece(<<"x">>), PlainPiece(<<" ">>),
     MentionPiece(TRUE, <<"u", "1">>), MentionPiece(FALSE, <<"u", "1">>),
     MentionPiece(FALSE, <<"U", "2">>), MentionPiece(TRUE, <<"5", ":", "u">>)}

PieceText(p) ==
    IF p.mention
    THEN MentionOpen \o (IF p.prefix THEN AccountIdPrefix ELSE <<>>) \o p.t \o <<"]">>
    ELSE p.t

TextOf(ps) == Concat([i \in 1..Len(ps) |-> PieceText(ps[i])])

PieceSeqs == SeqsUpTo(Pieces, MaxPieces)

CommentRec(a, ps) == [author |-> a, body |-> ps]

\* the author fields of an issue: assignee, reporter and the comments
MentionAuthorSets ==
    [assignee : {NoAuthor, AuthorAl, AuthorBo, AuthorDi},
     reporter : {NoAuthor, AuthorNoName, AuthorCy},
     comments : SeqsUpTo({CommentRec(AuthorAl, <<MentionPiece(TRUE, <<"U", "2">>)>>),
                          CommentRec(AuthorBo, <<PlainPiece(<<"x">>)>>)}, 1)]

IssueRec(authors, description) ==
    [assignee |-> authors.assignee, reporter |-> authors.reporter,
     comments |-> authors.comments, description |-> description]

NoIssue ==
    [assignee |-> NoAuthor, reporter |-> NoAuthor, comments |-> <<>>,
     description |-> <<>>]

NoOut == [description |-> NoText, comments |-> <<>>]

MentionIdle ==
    /\ mentionCache = EmptyCache
    /\ mIssue = NoIssue
    /\ mOut = NoOut
    /\ mPc = "idle"
    /\ wfIn = <<>>
    /\ wfOut = NoText

\* build_issue_text(issue), line 25: the cache is extended with the issue's
\* authors (the description is read by the next step)
BuildIssueTextCache ==
    /\ mPc \in {"idle", "built"}
    /\ \E authors \in MentionAuthorSets :
        /\ mentionCache' = build_display_name_cache(mentionCache, IssueRec(authors, <<>>))
        /\ mIssue' = IssueRec(authors, <<>>)
    /\ mOut' = NoOut
    /\ mPc' = "cached"
    /\ wfIn' = <<>>
    /\ wfOut' = NoText
    /\ UNCHANGED <<valVars, cfgVars, recVars, runVars, emlVars, fnVars>>

\* build_issue_text(issue), lines 26-55: the description and every comment
\* body are cleaned against the cache
BuildIssueTextExtract ==
    /\ mPc = "cached"
    /\ \E description \in PieceSeqs :
        /\ mIssue' = [mIssue EXCEPT !.description = description]
        /\ mOut' = [description |-> clean_html(TextOf(description), mentionCache),
                    comments |-> [i \in 1..Len(mIssue.comments) |->
                                     clean_html(TextOf(mIssue.comments[i].body),
                                                mentionCache)]]
    /\ mPc' = "built"
    /\ UNCHANGED <<mentionCache, wfIn, wfOut>>
    /\ UNCHANGED <<valVars, cfgVars, recVars, runVars, emlVars, fnVars>>

\* Workflow._clean_text(description) on the issue last built
WorkflowCleanText ==
    /\ mPc = "built"
    /\ wfIn' = mIssue.description
    /\ wfOut' = clean_text(TextOf(mIssue.description))
    /\ UNCHANGED <<mentionCache, mIssue, mOut, mPc>>
    /\ UNCHANGED <<valVars, cfgVars, recVars, runVars, emlVars, fnVars>>

(***************************************************************************)
(* Claims about mention resolution                                         *)
(***************************************************************************)
\* the cache the authors of one issue alone give
OwnCache(issue) == CacheAuthors(EmptyCache, AuthorFields(issue))

BuiltIssue == mPc = "built"

\* C5: the mention cache is scoped to one issue: whatever build_issue_text
\* calls came before on the same provider, the mention tokens of the issue
\* being built are resolved only from that issue's own authors.
C5_CacheDoesNotLeak ==
    BuiltIssue =>
        mOut.description = clean_html(TextOf(mIssue.description), OwnCache(mIssue))

\* what the claim asks of a text: each mention token gives the cached display
\* name, or else its bare identifier; everything else is kept
ResolvedPiece(p, cache) == IF p.mention THEN MentionDisplay(cache, p.t) ELSE p.t

ResolvedText(ps, cache) ==
    Strip(Concat([i \in 1..Len(ps) |-> ResolvedPiece(ps[i], cache)]))

\* C6: in extracted text every mention token [~accountid:X] or [~X] is
\* replaced, by the cached display name when X (case-insensitively) is a key
\* of the mention cache and by the bare identifier X otherwise; the raw
\* token never remains.  Stated of both extractors.
C6_EveryMentionReplaced ==
    /\ BuiltIssue =>
          mOut.description = ResolvedText(mIssue.description, mentionCache)
    /\ (BuiltIssue /\ wfIn = mIssue.description) =>
          wfOut = ResolvedText(wfIn, mentionCache)

\* the authors of the issue that write: those with a display name
Writers(issue) ==
    {j \in 1..Len(AuthorFields(issue)) : AuthorFields(issue)[j].displayName # NoText}

Carries(author, id) ==
    \E x \in 1..4 : AuthorIds(author)[x] # NoText /\ Lower(AuthorIds(author)[x]) = id

\* the lower-cased identifiers the writers of the issue carry
CarriedIds(issue) ==
    {Lower(AuthorIds(AuthorFields(issue)[j])[x]) : j \in Writers(issue), x \in 1..4}
        \ {NoText}

LastWriter(issue, id) ==
    CHOOSE j \in Writers(issue) :
        /\ Carries(AuthorFields(issue)[j], id)
        /\ \A h \in Writers(issue) : Carries(AuthorFields(issue)[h], id) => h <= j

\* the step of _build_display_name_cache leaves every other identifier as it was
C26_Step ==
    mPc' = "cached" =>
        \A id \in (DOMAIN mentionCache \cup DOMAIN mentionCache') \ CarriedIds(mIssue') :
            /\ id \in DOMAIN mentionCache
            /\ id \in DOMAIN mentionCache'
            /\ mentionCache'[id] = mentionCache[id]

\* C26: after _build_display_name_cache has processed an issue, every
\* identifier (lower-cased accountId, name, key or emailAddress) carried by
\* an author with a display name is mapped to the display name of the last
\* such author in the order assignee, reporter, comment authors; an author
\* without a display name writes nothing.
C26_LastWriterWins ==
    /\ [](mPc \in {"cached", "built"} =>
            \A id \in CarriedIds(mIssue) :
                /\ id \in DOMAIN mentionCache
                /\ mentionCache[id] =
                       AuthorFields(mIssue)[LastWriter(mIssue, id)].displayName)
    /\ [][C26_Step]_vars

\* an issue whose assignee and reporter carry the same identifier in
\* different case: the reporter, processed second, is in the cache
C26_Witness ==
    /\ mPc = "cached"
    /\ mIssue.assignee = AuthorAl
    /\ mIssue.reporter = AuthorCy
    /\ mIssue.comments = <<>>
    /\ mentionCache[<<"u", "1">>] = <<"C", "y">>

(***************************************************************************)
(* Timestamps and the recency filter                                       *)
(*                                                                         *)
(* A datetime is [s |-> seconds, us |-> microseconds] on the UTC time      *)
(* line, 0 <= us < 1000000, ordered as Python orders datetimes: by         *)
(* seconds, then by microseconds.  A `created` string is                   *)
(*   [fmt, s, us, off]: the wall-clock second and fraction it spells and   *)
(* its UTC offset in seconds; fmt says how it is written:                  *)
(*   "frac"    2024-01-01T10:00:00.000+0000   (first format of line 685)   *)
(*   "nofrac"  2024-01-01T10:00:00+0000       (second format)              *)
(*   "naive"   2024-01-01T10:00:00            (no offset: neither format)  *)
(*   "missing" None or ""                                                  *)
(***************************************************************************)
MaxComments == 2

Dt(s, us) == [s |-> s, us |-> us]

NoDt == [s |-> -1, us |-> -1]       \* None

Stamp(fmt, s, us, off) == [fmt |-> fmt, s |-> s, us |-> us, off |-> off]

NoStamp == Stamp("missing", 0, 0, 0)

\* Workflow._parse_comment_datetime: strptime against the two formats; an
\* aware datetime stands for the instant (wall clock - offset)
parse_comment_datetime(value) ==
    CASE value.fmt = "frac"   -> Dt(value.s - value.off, value.us)
      [] value.fmt = "nofrac" -> Dt(value.s - value.off, 0)
      [] OTHER                -> NoDt

\* datetime.__ge__
DtGe(a, b) == a.s > b.s \/ (a.s = b.s /\ a.us >= b.us)

\* datetime.now(timezone.utc) - timedelta(hours=hours)
Cutoff(now, hours) == Dt(now.s - hours * 3600, now.us)

\* {value.lower() for value in IGNORE_COMMENTS_FROM}
NormalizedIgnore(ignore) == {Lower(v) : v \in ignore}

\* lines 468-480 of workflow.py: some identifier of the author is ignored
AuthorIgnored(author, ignore) ==
    \E i \in 1..4 :
        /\ AuthorIds(author)[i] # NoText
        /\ Lower(AuthorIds(author)[i]) \in NormalizedIgnore(ignore)

\* (mutant) the boundary instant itself is dropped
comment_is_recent_Exclusive(comment, now, hours, ignore) ==
    /\ ~AuthorIgnored(comment.author, ignore)
    /\ parse_comment_datetime(comment.created) # NoDt
    /\ LET created_dt == parse_comment_datetime(comment.created)
           cutoff == Cutoff(now, hours)
       IN  created_dt.s > cutoff.s
               \/ (created_dt.s = cutoff.s /\ created_dt.us > cutoff.us)

\* one iteration of the loop of _collect_recent_comments: is the comment kept
comment_is_recent(comment, now, hours, ignore) ==
    /\ ~AuthorIgnored(comment.author, ignore)
    /\ parse_comment_datetime(comment.created) # NoDt
    /\ DtGe(parse_comment_datetime(comment.created), Cutoff(now, hours))

\* Workflow._collect_recent_comments: the indices of the comments kept, in order
RECURSIVE collect_from(_, _, _, _, _)
collect_from(comments, i, now, hours, ignore) ==
    IF i > Len(comments) THEN <<>>
    ELSE (IF comment_is_recent(comments[i], now, hours, ignore) THEN <<i>> ELSE <<>>)
             \o collect_from(comments, i + 1, now, hours, ignore)

collect_recent_comments(comments, now, hours, ignore) ==
    collect_from(comments, 1, now, hours, ignore)

TimedComment(a, st) == [author |-> a, created |-> st, body |-> <<>>]

\* the clock readings and windows of the model: 24 h before 100000 s is
\* 13600 s, 1 h before is 96400 s
Nows == {Dt(100000, 0), Dt(100000, 1)}

LookbackHours == {24, 1}

Stamps ==
    {Stamp("frac", 13600, 0, 0),            \* the 24 h boundary of Dt(100000, 0)
     Stamp("frac", 13599, 999999, 0),       \* one microsecond before it
     Stamp("frac", 17200, 1, 3600),         \* 13600.000001 s, written at +01:00
     Stamp("nofrac", 96400, 0, 0),          \* the 1 h boundary, no fraction
     Stamp("nofrac", 96399, 0, 0),
     Stamp("naive", 100000, 0, 0),          \* recent, but without an offset
     NoStamp}

TimedComments ==
    {TimedComment(AuthorAl, st) : st \in Stamps}
        \cup {TimedComment(AuthorBo, Stamp("nofrac", 96400, 0, 0)),
              TimedComment(AuthorNoName, Stamp("frac", 13600, 0, 0)),
              TimedComment(AuthorCy, Stamp("nofrac", 96400, 0, 0)),
              TimedComment(AuthorEm, NoStamp)}

\* IGNORE_COMMENTS_FROM is a set the deployment fills in (empty as shipped);
\* "U2" is AuthorBo's name and, lower-cased, AuthorNoName's accountId; "u1" is
\* AuthorAl's accountId and, lower-cased, AuthorCy's key; "e@x" is, lower-cased,
\* AuthorEm's emailAddress
IgnoreConfigs == {{}, {<<"U", "2">>}, {<<"u", "1">>, <<"e", "@", "x">>}}

\* the configuration as shipped: an empty ignore list, the 24 h default of
\* COMMENT_LOOKBACK_HOURS, and validate_html = True (main constructs Workflow
\* without the argument)
ConfigDefault ==
    /\ ignoreFrom = {}
    /\ comment_lookback_hours = 24
    /\ validate_html = TRUE

RecentIdle ==
    /\ cComments = <<>>
    /\ cNow = NoDt
    /\ cPos = 1
    /\ cRecent = <<>>
    /\ cReturned = FALSE
    /\ cSkipped = {}
    /\ xPos = 1
    /\ xFormatted = <<>>

\* lines 461-466: the clock is read once, before the loop
CollectStart ==
    /\ cNow = NoDt
    /\ cNow' \in Nows
    /\ UNCHANGED <<cComments, cPos, cRecent, cReturned, cSkipped, xPos, xFormatted>>
    /\ UNCHANGED <<valVars, menVars, cfgVars, runVars, emlVars, fnVars>>

\* lines 467-487: one comment
CollectComment ==
    /\ cNow # NoDt
    /\ cPos <= Len(cComments)
    /\ cRecent' = IF comment_is_recent(cComments[cPos], cNow, comment_lookback_hours, ignoreFrom)
                  THEN Append(cRecent, cPos)
                  ELSE cRecent
    /\ cSkipped' = IF AuthorIgnored(cComments[cPos].author, ignoreFrom)
                   THEN cSkipped \cup {cPos}
                   ELSE cSkipped
    /\ cPos' = cPos + 1
    /\ UNCHANGED <<cComments, cNow, cReturned, xPos, xFormatted>>
    /\ UNCHANGED <<valVars, menVars, cfgVars, runVars, emlVars, fnVars>>

\* line 488
CollectReturn ==
    /\ cNow # NoDt
    /\ cPos = Len(cComments) + 1
    /\ ~cReturned
    /\ cReturned' = TRUE
    /\ UNCHANGED <<cComments, cNow, cPos, cRecent, cSkipped, xPos, xFormatted>>
    /\ UNCHANGED <<valVars, menVars, cfgVars, runVars, emlVars, fnVars>>

\* issue_content._IGNORE_COMMENTS_NORMALIZED, computed when the module is
\* imported from the same defaults.IGNORE_COMMENTS_FROM
IGNORE_COMMENTS_NORMALIZED(ignore) == {Lower(v) : v \in ignore}

\* (mutant) the identifier is compared as written
should_ignore_comment_CaseSensitive(comment, ignore) ==
    /\ IGNORE_COMMENTS_NORMALIZED(ignore) # {}
    /\ \E i \in 1..4 :
        /\ AuthorIds(comment.author)[i] # NoText
        /\ AuthorIds(comment.author)[i] \in IGNORE_COMMENTS_NORMALIZED(ignore)

\* DefaultIssueContentProvider._should_ignore_comment
should_ignore_comment(comment, ignore) ==
    /\ IGNORE_COMMENTS_NORMALIZED(ignore) # {}
    /\ \E i \in 1..4 :
        /\ AuthorIds(comment.author)[i] # NoText
        /\ Lower(AuthorIds(comment.author)[i]) \in IGNORE_COMMENTS_NORMALIZED(ignore)

\* one iteration of the loop of _extract_comments on the same comments
ExtractComment ==
    /\ xPos <= Len(cComments)
    /\ xFormatted' = IF should_ignore_comment(cComments[xPos], ignoreFrom)
                     THEN xFormatted
                     ELSE Append(xFormatted, xPos)
    /\ xPos' = xPos + 1
    /\ UNCHANGED <<cComments, cNow, cPos, cRecent, cReturned, cSkipped>>
    /\ UNCHANGED <<valVars, menVars, cfgVars, runVars, emlVars, fnVars>>

(***************************************************************************)
(* Claims about the recency filter                                         *)
(***************************************************************************)
Kept(i) == \E k \in 1..Len(cRecent) : cRecent[k] = i

Parses(st) == st.fmt \in {"frac", "nofrac"}

\* the instant a parseable timestamp denotes
Instant(st) == Dt(st.s - st.off, IF st.fmt = "frac" THEN st.us ELSE 0)

Earlier(a, b) == a.s < b.s \/ (a.s = b.s /\ a.us < b.us)

WindowStart == Dt(cNow.s - 3600 * comment_lookback_hours, cNow.us)

OneMicrosecondBefore(d) == IF d.us = 0 THEN Dt(d.s - 1, 999999) ELSE Dt(d.s, d.us - 1)

\* no identity field of the author is, case-insensitively, on the ignore list
AuthorNotIgnored(a) ==
    \A id \in {a.accountId, a.name, a.key, a.emailAddress} :
        id = NoText \/ \A v \in ignoreFrom : Lower(v) # Lower(id)

NotIgnored(i) == AuthorNotIgnored(cComments[i].author)

\* C4: once _collect_recent_comments has returned, a non-ignored comment is
\* in the result if and only if its created timestamp parses and is not
\* earlier than now - window; one created exactly at now - window is kept,
\* one created a microsecond before is dropped, and one whose timestamp is
\* missing or unparseable is dropped
C4_RecentIffParsesAndInWindow ==
    cReturned =>
        \A i \in 1..Len(cComments) :
            NotIgnored(i) =>
                /\ Kept(i) <=> (/\ Parses(cComments[i].created)
                                /\ ~Earlier(Instant(cComments[i].created), WindowStart))
                /\ (Parses(cComments[i].created)
                        /\ Instant(cComments[i].created) = WindowStart) => Kept(i)
                /\ (Parses(cComments[i].created)
                        /\ Instant(cComments[i].created) = OneMicrosecondBefore(WindowStart))
                       => ~Kept(i)
                /\ ~Parses(cComments[i].created) => ~Kept(i)

\* C16: once both loops are over, a comment is dropped by the ignore test of
\* _collect_recent_comments exactly when one of the four identity fields of
\* its author is, case-insensitively, an entry of the ignore set; it is then
\* not in the result whatever its timestamp; and _extract_comments leaves
\* out exactly the same comments.
C16_SameIgnoreDecision ==
    (cReturned /\ xPos = Len(cComments) + 1) =>
        \A i \in 1..Len(cComments) :
            /\ i \in cSkipped <=> ~NotIgnored(i)
            /\ i \in cSkipped => ~Kept(i)
            /\ (\E k \in 1..Len(xFormatted) : xFormatted[k] = i) <=> i \notin cSkipped

\* both loops are over, and of two comments inside the window one was
\* dropped by both for an identity that matches only case-insensitively
\* and the other kept by both
C16_Witness ==
    /\ cReturned
    /\ xPos = Len(cComments) + 1
    /\ \E i, j \in 1..Len(cComments) :
        /\ i \in cSkipped
        /\ xFormatted = <<j>>
        /\ Kept(j)
        /\ \A id \in {cComments[i].author.accountId, cComments[i].author.name,
                       cComments[i].author.key, cComments[i].author.emailAddress} :
               id \notin ignoreFrom
        /\ Parses(cComments[i].created)
        /\ ~Earlier(Instant(cComments[i].created), WindowStart)

\* a returned call that saw a comment exactly on the boundary (kept), one a
\* microsecond before it (dropped) or an unparseable one (dropped)
C4_Witness ==
    /\ cReturned
    /\ \E i, j \in 1..Len(cComments) :
        /\ NotIgnored(i) /\ NotIgnored(j)
        /\ Parses(cComments[i].created)
        /\ Instant(cComments[i].created) = WindowStart
        /\ Kept(i)
        /\ \/ Parses(cComments[j].created)
                /\ Instant(cComments[j].created) = OneMicrosecondBefore(WindowStart)
           \/ ~Parses(cComments[j].created)
        /\ ~Kept(j)

(***************************************************************************)
(* _HTMLStructureValidator                                                 *)
(*                                                                         *)
(* html.parser.HTMLParser turns markup into a left-to-right sequence of     *)
(* handler calls; tag names arrive lower-cased.  An event is               *)
(*   [k |-> "start" | "end" | "startend" | "data", tag |-> name].           *)
(***************************************************************************)
MaxEvents == 4

VOID_ELEMENTS ==
    {"area", "base", "br", "col", "embed", "hr", "img", "input", "link",
     "meta", "param", "source", "track", "wbr"}

ValTags == {"p", "b", "br"}

Ev(k, t) == [k |-> k, tag |-> t]

ValEvents ==
    {Ev("start", t) : t \in ValTags} \cup {Ev("end", t) : t \in ValTags}
        \cup {Ev("startend", t) : t \in {"p", "br"}} \cup {Ev("data", "x")}

ErrUnexpected(t) == [kind |-> "unexpected", tag |-> t, expected |-> ""]
ErrMismatched(t, e) == [kind |-> "mismatched", tag |-> t, expected |-> e]
ErrUnclosed(t) == [kind |-> "unclosed", tag |-> t, expected |-> ""]

\* handle_starttag: returns the new stack
handle_starttag(stk, tag) ==
    IF tag \in VOID_ELEMENTS THEN stk ELSE Append(stk, tag)

\* (mutant) an end tag met with an empty stack is dropped without an error
handle_endtag_SilentUnderflow(stk, errs, tag) ==
    IF tag \in VOID_ELEMENTS THEN <<stk, errs>>
    ELSE IF stk = <<>> THEN <<stk, errs>>
    ELSE IF Last(stk) # tag
         THEN <<Front(stk), Append(errs, ErrMismatched(tag, Last(stk)))>>
         ELSE <<Front(stk), errs>>

\* (mutant) a mismatched end tag leaves the open tag on the stack
handle_endtag_NoPopOnMismatch(stk, errs, tag) ==
    IF tag \in VOID_ELEMENTS THEN <<stk, errs>>
    ELSE IF stk = <<>> THEN <<stk, Append(errs, ErrUnexpected(tag))>>
    ELSE IF Last(stk) # tag
         THEN <<stk, Append(errs, ErrMismatched(tag, Last(stk)))>>
         ELSE <<Front(stk), errs>>

\* handle_endtag: returns the new <<stack, errors>>
handle_endtag(stk, errs, tag) ==
    IF tag \in VOID_ELEMENTS THEN <<stk, errs>>
    ELSE IF stk = <<>> THEN <<stk, Append(errs, ErrUnexpected(tag))>>
    ELSE IF Last(stk) # tag
         THEN <<Front(stk), Append(errs, ErrMismatched(tag, Last(stk)))>>
         ELSE <<Front(stk), errs>>

\* one handler call of HTMLParser.feed: returns the new <<stack, errors>>
ValStep(stk, errs, ev) ==
    CASE ev.k = "start"    -> <<handle_starttag(stk, ev.tag), errs>>
      [] ev.k = "end"      -> handle_endtag(stk, errs, ev.tag)
      [] ev.k = "startend" -> <<stk, errs>>     \* handle_startendtag: return
      [] OTHER             -> <<stk, errs>>     \* data: no handler overridden

\* close(): one "unclosed" error per tag left on the stack, popped from the top
RECURSIVE CloseErrors(_, _)
CloseErrors(stk, errs) ==
    IF stk = <<>> THEN errs
    ELSE CloseErrors(Front(stk), Append(errs, ErrUnclosed(Last(stk))))

\* validator.feed: the handlers run on the events lo..hi in order, from the
\* state sr = <<stack, errors>>.  The range is halved, and the left half is
\* evaluated before the right one (Len(left) is always 2), so that the
\* evaluation of a long page stays shallow; the order of the handler calls
\* is that of the events.
RECURSIVE FeedAll(_, _, _, _)
FeedAll(sr, evs, lo, hi) ==
    IF lo > hi THEN sr
    ELSE IF lo = hi THEN ValStep(sr[1], sr[2], evs[lo])
    ELSE LET mid == (lo + hi) \div 2
             left == FeedAll(sr, evs, lo, mid)
         IN  IF Len(left) = 2 THEN FeedAll(left, evs, mid + 1, hi) ELSE left

\* the whole validation of an event sequence, as _validate_html runs it
ValidateEvents(evs) ==
    LET r == FeedAll(<<<<>>, <<>>>>, evs, 1, Len(evs)) IN CloseErrors(r[1], r[2])

ValidatorIdle ==
    /\ vInput = <<>>
    /\ vPos = 1
    /\ stack = <<>>
    /\ errors = <<>>
    /\ vClosed = FALSE

\* validator.feed(body): the next event reaches its handler
ValFeed ==
    /\ ~vClosed
    /\ vPos <= Len(vInput)
    /\ LET r == ValStep(stack, errors, vInput[vPos])
       IN  /\ stack' = r[1]
           /\ errors' = r[2]
    /\ vPos' = vPos + 1
    /\ UNCHANGED <<vInput, vClosed>>
    /\ UNCHANGED <<menVars, cfgVars, recVars, runVars, emlVars, fnVars>>

\* validator.close()
ValClose ==
    /\ ~vClosed
    /\ vPos = Len(vInput) + 1
    /\ errors' = CloseErrors(stack, errors)
    /\ stack' = <<>>
    /\ vClosed' = TRUE
    /\ UNCHANGED <<vInput, vPos>>
    /\ UNCHANGED <<menVars, cfgVars, recVars, runVars, emlVars, fnVars>>


(***************************************************************************)
(* Claims about the validator                                              *)
(***************************************************************************)
\* the open and close tags that count: self-closing tags, void elements and
\* character data are ignored
Significant(evs) ==
    SelectSeq(evs, LAMBDA e : e.k \in {"start", "end"} /\ e.tag \notin VOID_ELEMENTS)

RemoveAt(s, i) == SubSeq(s, 1, i - 1) \o SubSeq(s, i + 1, Len(s))

\* properly nested and fully closed, by cancelling adjacent <t></t> pairs
RECURSIVE Balanced(_)
Balanced(evs) ==
    IF evs = <<>> THEN TRUE
    ELSE LET pairs == {i \in 1..(Len(evs) - 1) :
                          /\ evs[i].k = "start"
                          /\ evs[i + 1].k = "end"
                          /\ evs[i].tag = evs[i + 1].tag}
         IN  IF pairs = {} THEN FALSE
             ELSE LET i == CHOOSE j \in pairs : \A m \in pairs : j <= m
                  IN  Balanced(RemoveAt(RemoveAt(evs, i + 1), i))

\* the next event is a closing tag that does not close the innermost open tag
BadCloseNext ==
    /\ vPos <= Len(vInput)
    /\ vInput[vPos].k = "end"
    /\ vInput[vPos].tag \notin VOID_ELEMENTS
    /\ (stack = <<>> \/ Last(stack) # vInput[vPos].tag)

C7_StepRule ==
    /\ (vPos' = vPos + 1) =>
          /\ Len(errors') = Len(errors) + (IF BadCloseNext THEN 1 ELSE 0)
          /\ SubSeq(errors', 1, Len(errors)) = errors
          /\ ~vClosed'
    /\ (vClosed' /\ ~vClosed) =>
          /\ vPos = Len(vInput) + 1
          /\ Len(errors') = Len(errors) + Len(stack)
          /\ SubSeq(errors', 1, Len(errors)) = errors
          /\ \A i \in (Len(errors) + 1)..Len(errors') : errors'[i].kind = "unclosed"

\* C7: for every sequence of open and close tags (self-closing tags and void
\* elements ignored) the validator ends with no error if and only if the
\* sequence is properly nested and fully closed; a mismatched or unexpected
\* closing tag adds exactly one error and the scan goes on to the end of the
\* input, where every tag still open adds one "unclosed" error.
C7_ValidatorSoundAndComplete ==
    /\ [](vClosed => ((errors = <<>>) <=> Balanced(Significant(vInput))))
    /\ [][C7_StepRule]_vars

C7_Witness ==
    /\ vClosed
    /\ \E i, j \in 1..Len(errors) :
          errors[i].kind = "mismatched" /\ errors[j].kind = "unclosed"
    /\ \E e \in {vInput[i] : i \in 1..Len(vInput)} : e.k = "startend"

C8Input == <<Ev("start", "p"), Ev("start", "b"), Ev("data", "x"), Ev("end", "p")>>

\* C8 as stated: <p><b>x</p> yields exactly two "unclosed" errors, b then p
C8_Original_TwoUnclosed ==
    (vClosed /\ vInput = C8Input) =>
        errors = <<ErrUnclosed("b"), ErrUnclosed("p")>>

\* C8 (amended): <p><b>x</p> yields exactly two errors: first the mismatched
\* closing tag </p> (where </b> was expected), then the unclosed tag p.
C8_MismatchedThenUnclosed ==
    (vClosed /\ vInput = C8Input) =>
        errors = <<ErrMismatched("p", "b"), ErrUnclosed("p")>>

C8_Witness == vClosed /\ vInput = C8Input /\ Len(errors) = 2

(***************************************************************************)
(* Escaping                                                                *)
(***************************************************************************)
\* the output formatter of bs4 ("minimal") on the characters of the model:
\* & and <
RECURSIVE EscapeText(_)
EscapeText(t) ==
    IF t = <<>> THEN <<>>
    ELSE (CASE Head(t) = "&" -> <<"&", "a", "m", "p", ";">>
            [] Head(t) = "<" -> <<"&", "l", "t", ";">>
            [] OTHER         -> <<Head(t)>>) \o EscapeText(Tail(t))

\* html.escape (quote=True) on the characters of the model: &, < and "
RECURSIVE html_escape(_)
html_escape(t) ==
    IF t = <<>> THEN <<>>
    ELSE (CASE Head(t) = "&"  -> <<"&", "a", "m", "p", ";">>
            [] Head(t) = "<"  -> <<"&", "l", "t", ";">>
            [] Head(t) = "\"" -> <<"&", "q", "u", "o", "t", ";">>
            [] OTHER          -> <<Head(t)>>) \o html_escape(Tail(t))

\* html.unescape as html.parser applies it to character data and attribute
\* values: one pass, left to right
RECURSIVE UnescapeText(_)
UnescapeText(t) ==
    IF t = <<>> THEN <<>>
    ELSE IF HasAt(t, 1, <<"&", "a", "m", "p", ";">>)
         THEN <<"&">> \o UnescapeText(SubSeq(t, 6, Len(t)))
    ELSE IF HasAt(t, 1, <<"&", "l", "t", ";">>)
         THEN <<"<">> \o UnescapeText(SubSeq(t, 5, Len(t)))
    ELSE IF HasAt(t, 1, <<"&", "q", "u", "o", "t", ";">>)
         THEN <<"\"">> \o UnescapeText(SubSeq(t, 7, Len(t)))
    ELSE <<Head(t)>> \o UnescapeText(Tail(t))

(***************************************************************************)
(* renderers.build_confluence_storage                                      *)
(*                                                                         *)
(* The page is modelled by the events html.parser reads from it.  A text   *)
(* run is the event [k |-> "data", text |-> ...]; the start tag of a macro *)
(* or of a macro parameter carries its ac:name.                            *)
(***************************************************************************)
Data(s) == [k |-> "data", text |-> s]

MacroTag == "ac:structured-macro"

MacroOpen(name) == [k |-> "start", tag |-> MacroTag, name |-> name]

MacroClose == Ev("end", MacroTag)

Element(tag, content) == <<Ev("start", tag)>> \o content \o <<Ev("end", tag)>>

Parameter(name, value) ==
    <<[k |-> "start", tag |-> "ac:parameter", name |-> name],
      Data(value), Ev("end", "ac:parameter")>>

RichTextBody(content) == Element("ac:rich-text-body", content)

\* lines 58-64
toc_macro ==
    <<MacroOpen("toc")>> \o Parameter("minLevel", "3") \o Parameter("maxLevel", "3")
        \o <<Ev("startend", "ac:rich-text-body"), MacroClose>>

\* jira_base_url.rstrip('/')
BaseUrl == <<"j">>

\* An insertion of an argument into the page: character data, or a link
\* whose href is built from the argument.  `field` names the argument the
\* text comes from, as <<name, index>> (index 0 for a single string); it is
\* a label of the model, not a part of the page.
Field(name, text) == [k |-> "data", text |-> text, field |-> name]

Link(name, href, content) ==
    <<[k |-> "start", tag |-> "a", href |-> href, field |-> name]>>
        \o content \o <<Ev("end", "a")>>

FieldParameter(name, field, value) ==
    <<[k |-> "start", tag |-> "ac:parameter", name |-> name],
      Field(field, value), Ev("end", "ac:parameter")>>

\* urllib.parse.quote_plus on the characters of the model
RECURSIVE quote_plus(_)
quote_plus(t) ==
    IF t = <<>> THEN <<>>
    ELSE (CASE Head(t) = "&"  -> <<"%", "2", "6">>
            [] Head(t) = "<"  -> <<"%", "3", "C">>
            [] Head(t) = "\"" -> <<"%", "2", "2">>
            [] Head(t) = ";"  -> <<"%", "3", "B">>
            [] Head(t) = " "  -> <<"+">>
            [] OTHER          -> <<Head(t)>>) \o quote_plus(Tail(t))

\* a string written into a fragment that _assemble_info_panel_body parses
\* with BeautifulSoup and writes back with str(container)
Reparsed(t) == EscapeText(UnescapeText(t))

\* _assemble_info_panel_body: a div holding INFO_HEADER, the summary row and
\* the guidance paragraph
assemble_info_panel_body(timestamp, filter_id, filter_name, total_issues) ==
    Element("div",
        <<Data("INFO_HEADER")>>
        \o Element("p",
              Element("strong", <<Data("Generated:")>>) \o <<Data(timestamp), Data(" | ")>>
              \o Element("strong", <<Data("Filter:")>>)
              \o Link(<<"filter_id", 0>>,
                      Reparsed(BaseUrl \o <<"/issues/?filter=">> \o quote_plus(filter_id)),
                      <<Field(<<"filter_id", 0>>, Reparsed(html_escape(filter_id)))>>)
              \o (IF html_escape(filter_name) = <<>> THEN <<>>
                  ELSE <<Data(" ("),
                         Field(<<"filter_name", 0>>, Reparsed(html_escape(filter_name))),
                         Data(")")>>)
              \o <<Data(" | ")>>
              \o Element("strong", <<Data("Total issues:")>>)
              \o <<Data(ToString(total_issues))>>)
        \o Element("p", <<Data("Review all generated notes for accuracy before wider sharing.")>>))

\* _build_info_panel
build_info_panel(text) ==
    IF text = <<>> THEN <<>>
    ELSE <<MacroOpen("info")>> \o Parameter("icon", "information")
             \o RichTextBody(text) \o <<MacroClose>>

\* _impediment_badge
impediment_badge ==
    <<MacroOpen("status")>> \o Parameter("colour", "red")
        \o Parameter("title", "IMPEDIMENT") \o Parameter("subtle", "false")
        \o <<MacroClose, Data(" ")>>

\* (mutant) closed is not one of the done names
_DONE_STATUS_NAMES_NoClosed ==
    {<<"d", "o", "n", "e">>,
     <<"r", "e", "s", "o", "l", "v", "e", "d">>,
     <<"c", "a", "n", "c", "e", "l", "l", "e", "d">>}

_DONE_STATUS_NAMES ==
    {<<"d", "o", "n", "e">>, <<"c", "l", "o", "s", "e", "d">>,
     <<"r", "e", "s", "o", "l", "v", "e", "d">>,
     <<"c", "a", "n", "c", "e", "l", "l", "e", "d">>}

\* _format_status_value
format_status_value(status) ==
    IF status = NoText \/ Strip(status) = NoText THEN <<Data("Unknown")>>
    ELSE IF Lower(Strip(status)) \in _DONE_STATUS_NAMES
         THEN <<MacroOpen("status")>> \o Parameter("colour", "Green")
                  \o FieldParameter("title", <<"status", 0>>, html_escape(Strip(status)))
                  \o Parameter("subtle", "false")
                  \o <<MacroClose>>
         ELSE <<Field(<<"status", 0>>, html_escape(Strip(status)))>>

\* ", ".join(parts)
RECURSIVE Join(_)
Join(parts) ==
    IF parts = <<>> THEN <<>>
    ELSE IF Len(parts) = 1 THEN parts[1]
    ELSE parts[1] \o <<Data(", ")>> \o Join(Tail(parts))

\* _format_labels; label_status_map is defaults.LABEL_STATUS_MAP
format_labels(labels, label_status_map) ==
    IF labels = <<>> THEN <<Data("None")>>
    ELSE Join([j \in 1..Len(labels) |->
            IF labels[j] \in DOMAIN label_status_map
            THEN <<MacroOpen("status")>>
                     \o Parameter("colour", html_escape(label_status_map[labels[j]]))
                     \o FieldParameter("title", <<"label", j>>, html_escape(labels[j]))
                     \o Parameter("subtle", "false")
                     \o <<MacroClose>>
            ELSE <<Field(<<"label", j>>, html_escape(labels[j]))>>])

\* lines 104-108
format_components(components) ==
    IF components = <<>> THEN <<Data("None")>>
    ELSE Join([j \in 1..Len(components) |->
                  <<Field(<<"component", j>>, html_escape(components[j]))>>])

\* (mutant) a field is written as it is
EscapedOr_Raw(name, value, default) ==
    IF value = NoText THEN Data(default) ELSE Field(name, value)

\* html.escape(value or default)
EscapedOr(name, value, default) ==
    IF value = NoText THEN Data(default) ELSE Field(name, html_escape(value))

\* the block-level tags markdown leaves alone when a text begins with one
BlockTags == {"p", "div"}

\* _render_markdown: an empty text gives an empty string; a text that opens
\* with a raw block-level tag is passed through; any other text becomes one
\* paragraph, and markdown copies the HTML tags written in it as they are
render_markdown(text) ==
    IF text = <<>> THEN <<>>
    ELSE IF text[1].k = "start" /\ text[1].tag \in BlockTags THEN text
    ELSE Element("p", text)

\* (mutant) the panel wrapper is left out
wrap_panel_Bare(body_html) == IF body_html = <<>> THEN Element("p", <<>>) ELSE body_html

\* _wrap_panel
wrap_panel(body_html) ==
    <<MacroOpen("panel")>> \o Parameter("borderColor", "#0052CC")
        \o Parameter("borderStyle", "solid") \o Parameter("bgColor", "#E9F2FF")
        \o RichTextBody(IF body_html = <<>> THEN Element("p", <<>>) ELSE body_html)
        \o <<MacroClose>>

\* lines 93-129: heading, metadata line, product line of one record
section_head(block, label_status_map) ==
    Element("h3",
        Link(<<"key", 0>>, html_escape(BaseUrl \o <<"/browse/">> \o block.key),
             <<Field(<<"key", 0>>, html_escape(block.key))>>)
        \o <<Data(": "), Field(<<"summary", 0>>, html_escape(block.summary))>>)
    \o Element("p",
          (IF block.is_impediment THEN impediment_badge ELSE <<>>)
          \o Element("strong", <<Data("Status:")>>)
          \o format_status_value(block.status) \o <<Data(" | ")>>
          \o Element("strong", <<Data("Assignee:")>>)
          \o (IF block.assignee_url = NoText
              THEN <<EscapedOr(<<"assignee_name", 0>>, block.assignee_name, "Unassigned")>>
              ELSE Link(<<"assignee_url", 0>>, html_escape(block.assignee_url),
                        <<EscapedOr(<<"assignee_name", 0>>, block.assignee_name, "Unassigned")>>))
          \o <<Data(" | ")>>
          \o Element("strong", <<Data("Priority:")>>)
          \o <<EscapedOr(<<"priority_name", 0>>, block.priority_name, "None"), Data(" | ")>>
          \o Element("strong", <<Data("Labels:")>>)
          \o format_labels(block.labels, label_status_map) \o <<Data(" | ")>>
          \o Element("strong", <<Data("Components:")>>)
          \o format_components(block.components) \o <<Data(" | ")>>
          \o Element("strong", <<Data("Reporter:")>>)
          \o <<EscapedOr(<<"reporter_name", 0>>, block.reporter_name, "Unknown")>>)
    \o Element("p",
          Element("strong", <<Data("Product:")>>)
          \o <<EscapedOr(<<"product", 0>>, block.product, "Unknown"), Data(" | ")>>
          \o Element("strong", <<Data("Customer:")>>)
          \o <<EscapedOr(<<"customer", 0>>, block.customer, "Unknown")>>)

\* lines 130-132: the narrative of one record
section_body(block) ==
    IF block.should_panel THEN wrap_panel(render_markdown(block.llm_text))
    ELSE render_markdown(block.llm_text)

\* lines 133-134
section(block, label_status_map) ==
    section_head(block, label_status_map) \o section_body(block)

\* (mutant) the sections are written last record first
build_confluence_storage_Reversed(timestamp, label_status_map, filter_id, filter_name, total_issues, issue_blocks) ==
    toc_macro
    \o build_info_panel(assemble_info_panel_body(timestamp, filter_id, filter_name,
                                                 total_issues))
    \o Concat([i \in 1..Len(issue_blocks) |->
                  section(issue_blocks[Len(issue_blocks) + 1 - i], label_status_map)])

\* build_confluence_storage; `timestamp` is the clock reading of line 53
build_confluence_storage(timestamp, label_status_map, filter_id, filter_name, total_issues, issue_blocks) ==
    toc_macro
    \o build_info_panel(assemble_info_panel_body(timestamp, filter_id, filter_name,
                                                 total_issues))
    \o Concat([i \in 1..Len(issue_blocks) |-> section(issue_blocks[i], label_status_map)])

(***************************************************************************)
(* Workflow.run and Workflow.run_with_placeholder                          *)
(***************************************************************************)
MaxIssues == 2

CommentOld == TimedComment(AuthorAl, Stamp("frac", 13599, 999999, 0))

CommentEdge == TimedComment(AuthorAl, Stamp("frac", 13600, 0, 0))

CommentBo == TimedComment(AuthorBo, Stamp("nofrac", 96400, 0, 0))

RunIssue(key, status, comments) ==
    [key |-> key, summary |-> "summary", status |-> status, comments |-> comments]

\* what an issue of the search can look like: its status and its comments
RunIssueKinds ==
    {<<<<"D", "o", "n", "e">>, <<>>>>,
     <<<<"O", "p", "e", "n">>, <<CommentOld>>>>,
     <<<<"D", "o", "n", "e">>, <<CommentEdge>>>>,
     <<<<"O", "p", "e", "n">>, <<CommentBo>>>>,
     <<<<"O", "p", "e", "n">>, <<CommentOld, CommentEdge>>>>}

\* the lists a filter search can return; the i-th issue has the key "i"
RunIssueLists ==
    UNION {{[i \in 1..n |-> RunIssue(ToString(i), f[i][1], f[i][2])] :
                f \in [1..n -> RunIssueKinds]} : n \in 0..MaxIssues}

Limits == {0, 1}

\* the ignore lists of the runs: empty as shipped, and one that names the
\* author of CommentBo
RunIgnoreConfigs == {{}, {<<"U", "2">>}}

\* the text of a completion after _strip_think_blocks and
\* _demote_markdown_headings, as the markup written in it: nothing, plain
\* words, a balanced tag pair, a tag left open, a macro written literally
Responses ==
    {<<>>,
     <<Data("words")>>,
     <<Ev("start", "b"), Data("words"), Ev("end", "b")>>,
     <<Ev("start", "b"), Data("words")>>,
     <<MacroOpen("panel"), MacroClose>>}

\* the clock of build_confluence_storage, formatted
RenderStamps == {"10:00", "10:01"}

\* _no_recent_activity_message
no_recent_activity_message(hours) ==
    Element("p", Element("em", <<Data("No comment activity in the last"),
                                 Data(ToString(hours)), Data("hours.")>>))

PlaceholderText == <<Data("This is where the LLM response is")>>

Output(issue, text, should_panel) ==
    [issue |-> issue, text |-> text, should_panel |-> should_panel]

Call(step, key) == [step |-> step, key |-> key]

\* defaults.LABEL_STATUS_MAP as shipped: no label is mapped
LABEL_STATUS_MAP == [label \in {} |-> NoText]

\* _build_confluence_body: one render block per output, in order
build_confluence_body(timestamp, llm_outputs) ==
    build_confluence_storage(timestamp, LABEL_STATUS_MAP, <<"filter">>, <<"name">>,
                             Len(llm_outputs),
        [i \in 1..Len(llm_outputs) |->
            [key |-> <<llm_outputs[i].issue.key>>,
             summary |-> <<llm_outputs[i].issue.summary>>,
             assignee_name |-> NoText,
             assignee_url |-> NoText,
             reporter_name |-> NoText,
             priority_name |-> NoText,
             labels |-> <<>>,
             components |-> <<>>,
             status |-> llm_outputs[i].issue.status,
             is_impediment |-> FALSE,
             product |-> NoText,
             customer |-> NoText,
             llm_text |-> llm_outputs[i].text,
             should_panel |-> llm_outputs[i].should_panel]])

\* (mutant) the validation step is skipped
validate_html_errors_Skipped(enabled, body) == <<>>

\* run, lines 159-160: `if self.validate_html: self._validate_html(body)`;
\* the errors that make _validate_html raise
validate_html_errors(enabled, body) ==
    IF enabled THEN ValidateEvents(body) ELSE <<>>

RunIdle ==
    /\ rMode = "run"
    /\ rLimit = 0
    /\ rFound = <<>>
    /\ rIssues = <<>>
    /\ rIdx = 1
    /\ rNow = NoDt
    /\ rClocks = <<>>
    /\ rOutputs = <<>>
    /\ rTrace = <<>>
    /\ rBody = <<>>
    /\ rCreatePage = <<>>
    /\ rPc = "idle"
    /\ rError = ""

RunOthersUnchanged == UNCHANGED <<valVars, menVars, cfgVars, recVars, emlVars, fnVars>>

Raise(error) ==
    /\ rPc' = "failed"
    /\ rError' = error

\* collect_issues, the limit, parse_filter_description
CollectIssues ==
    /\ rPc = "start"
    /\ rIssues' = IF rLimit = 0 \/ rLimit >= Len(rFound) THEN rFound
                  ELSE SubSeq(rFound, 1, rLimit)
    /\ rTrace' = Append(rTrace, Call("search", ""))
    /\ rPc' = "round"
    /\ UNCHANGED <<rMode, rLimit, rFound, rIdx, rNow, rClocks, rOutputs, rBody,
                   rCreatePage, rError>>
    /\ RunOthersUnchanged

\* the same, when the Jira request fails or the filter description lacks a
\* required setting
CollectIssuesRaises ==
    /\ rPc = "start"
    /\ rTrace' = Append(rTrace, Call("search", ""))
    /\ Raise("collect")
    /\ UNCHANGED <<rMode, rLimit, rFound, rIssues, rIdx, rNow, rClocks, rOutputs,
                   rBody, rCreatePage>>
    /\ RunOthersUnchanged

InRound == rPc = "round" /\ rIdx <= Len(rIssues)

\* _hydrate_issue raises
HydrateRaises ==
    /\ InRound
    /\ rTrace' = Append(rTrace, Call("hydrate", rIssues[rIdx].key))
    /\ Raise("hydrate")
    /\ UNCHANGED <<rMode, rLimit, rFound, rIssues, rIdx, rNow, rClocks, rOutputs,
                   rBody, rCreatePage>>
    /\ RunOthersUnchanged

\* the recent comments of the issue of this iteration, the clock reading `now`
RecentOf(now) ==
    collect_recent_comments(rIssues[rIdx].comments, now, comment_lookback_hours,
                            ignoreFrom)

ClockReads(now) ==
    /\ now \in Nows
    /\ rNow = NoDt \/ DtGe(now, rNow)
    /\ rNow' = now
    /\ rClocks' = Append(rClocks, now)

\* (mutant) the completion client is called for an issue without recent comments
RoundNoRecent_CallsLlm ==
    /\ InRound
    /\ \E now \in Nows :
        /\ ClockReads(now)
        /\ RecentOf(now) = <<>>
    /\ rOutputs' = Append(rOutputs,
                          Output(rIssues[rIdx],
                                 no_recent_activity_message(comment_lookback_hours),
                                 FALSE))
    /\ rTrace' = rTrace \o <<Call("hydrate", rIssues[rIdx].key),
                             Call("llm", rIssues[rIdx].key)>>
    /\ rIdx' = rIdx + 1
    /\ UNCHANGED <<rMode, rLimit, rFound, rIssues, rBody, rCreatePage, rPc, rError>>
    /\ RunOthersUnchanged

\* one iteration of either loop, no recent comment: the fixed message, no panel
RoundNoRecent ==
    /\ InRound
    /\ \E now \in Nows :
        /\ ClockReads(now)
        /\ RecentOf(now) = <<>>
    /\ rOutputs' = Append(rOutputs,
                          Output(rIssues[rIdx],
                                 no_recent_activity_message(comment_lookback_hours),
                                 FALSE))
    /\ rTrace' = Append(rTrace, Call("hydrate", rIssues[rIdx].key))
    /\ rIdx' = rIdx + 1
    /\ UNCHANGED <<rMode, rLimit, rFound, rIssues, rBody, rCreatePage, rPc, rError>>
    /\ RunOthersUnchanged

\* one iteration of _run_llm_round with recent comments: the completion
\* client answers
RoundLlm ==
    /\ InRound
    /\ rMode = "run"
    /\ \E now \in Nows :
        /\ ClockReads(now)
        /\ RecentOf(now) # <<>>
    /\ \E response_text \in Responses :
        rOutputs' = Append(rOutputs, Output(rIssues[rIdx], response_text, TRUE))
    /\ rTrace' = rTrace \o <<Call("hydrate", rIssues[rIdx].key),
                             Call("text", rIssues[rIdx].key),
                             Call("llm", rIssues[rIdx].key)>>
    /\ rIdx' = rIdx + 1
    /\ UNCHANGED <<rMode, rLimit, rFound, rIssues, rBody, rCreatePage, rPc, rError>>
    /\ RunOthersUnchanged

\* the same iteration when generate_completion raises
RoundLlmRaises ==
    /\ InRound
    /\ rMode = "run"
    /\ \E now \in Nows :
        /\ ClockReads(now)
        /\ RecentOf(now) # <<>>
    /\ rTrace' = rTrace \o <<Call("hydrate", rIssues[rIdx].key),
                             Call("text", rIssues[rIdx].key),
                             Call("llm", rIssues[rIdx].key)>>
    /\ Raise("llm")
    /\ UNCHANGED <<rMode, rLimit, rFound, rIssues, rIdx, rOutputs, rBody, rCreatePage>>
    /\ RunOthersUnchanged

\* one iteration of the loop of run_with_placeholder with recent comments
RoundPlaceholder ==
    /\ InRound
    /\ rMode = "placeholder"
    /\ \E now \in Nows :
        /\ ClockReads(now)
        /\ RecentOf(now) # <<>>
    /\ rOutputs' = Append(rOutputs, Output(rIssues[rIdx], PlaceholderText, TRUE))
    /\ rTrace' = rTrace \o <<Call("hydrate", rIssues[rIdx].key),
                             Call("text", rIssues[rIdx].key)>>
    /\ rIdx' = rIdx + 1
    /\ UNCHANGED <<rMode, rLimit, rFound, rIssues, rBody, rCreatePage, rPc, rError>>
    /\ RunOthersUnchanged

\* (mutant) the page is rendered while issues are still to be processed
BuildBody_BeforeRoundEnds ==
    /\ rPc = "round"
    /\ \E timestamp \in RenderStamps :
        rBody' = build_confluence_body(timestamp, rOutputs)
    /\ rPc' = "validate"
    /\ UNCHANGED <<rMode, rLimit, rFound, rIssues, rIdx, rNow, rClocks, rOutputs,
                   rTrace, rCreatePage, rError>>
    /\ RunOthersUnchanged

\* the round has returned: _build_confluence_body and _persist_confluence_body
BuildBody ==
    /\ rPc = "round"
    /\ rIdx = Len(rIssues) + 1
    /\ \E timestamp \in RenderStamps :
        rBody' = build_confluence_body(timestamp, rOutputs)
    /\ rPc' = "validate"
    /\ UNCHANGED <<rMode, rLimit, rFound, rIssues, rIdx, rNow, rClocks, rOutputs,
                   rTrace, rCreatePage, rError>>
    /\ RunOthersUnchanged

\* `if self.validate_html: self._validate_html(body)`
ValidateBody ==
    /\ rPc = "validate"
    /\ IF validate_html_errors(validate_html, rBody) # <<>>
       THEN Raise("validation")
       ELSE rPc' = "publish" /\ rError' = rError
    /\ UNCHANGED <<rMode, rLimit, rFound, rIssues, rIdx, rNow, rClocks, rOutputs,
                   rTrace, rBody, rCreatePage>>
    /\ RunOthersUnchanged

\* _publish_confluence_page: create_page answers
PublishPage ==
    /\ rPc = "publish"
    /\ rCreatePage' = Append(rCreatePage, rBody)
    /\ rTrace' = Append(rTrace, Call("create_page", ""))
    /\ rPc' = "email"
    /\ UNCHANGED <<rMode, rLimit, rFound, rIssues, rIdx, rNow, rClocks, rOutputs,
                   rBody, rError>>
    /\ RunOthersUnchanged

\* _publish_confluence_page: create_page raises
PublishRaises ==
    /\ rPc = "publish"
    /\ rCreatePage' = Append(rCreatePage, rBody)
    /\ rTrace' = Append(rTrace, Call("create_page", ""))
    /\ Raise("publish")
    /\ UNCHANGED <<rMode, rLimit, rFound, rIssues, rIdx, rNow, rClocks, rOutputs, rBody>>
    /\ RunOthersUnchanged

\* _send_email_if_enabled, line 231: AppConfig has no attribute email_enabled
SendEmailIfEnabled ==
    /\ rPc = "email"
    /\ Raise("AttributeError")
    /\ UNCHANGED <<rMode, rLimit, rFound, rIssues, rIdx, rNow, rClocks, rOutputs,
                   rTrace, rBody, rCreatePage>>
    /\ RunOthersUnchanged

(***************************************************************************)
(* Claims about the workflow                                               *)
(***************************************************************************)
Malformed(body) == ValidateEvents(body) # <<>>

\* a step from the validation point with a malformed body raises, and
\* create_page is not called
C1_BlockedStep ==
    (rPc = "validate" /\ Malformed(rBody)) =>
        (rPc' = "failed" /\ rError' = "validation" /\ rCreatePage' = rCreatePage)

\* C1: in run and in run_with_placeholder, create_page is never invoked with
\* a body on which the structure validator reports an error: a non-empty
\* validator result raises before publication.
C1_NeverPublishesMalformed ==
    /\ [](\A i \in 1..Len(rCreatePage) : ~Malformed(rCreatePage[i]))
    /\ [][C1_BlockedStep]_vars

\* a run whose rendered body was malformed ended at the validation, unpublished
C1_Witness ==
    /\ rError = "validation"
    /\ Malformed(rBody)
    /\ rCreatePage = <<>>

\* the issue has a comment that passes the ignore list and the recency
\* window read at `now`
HasRecent(issue, now) ==
    \E j \in 1..Len(issue.comments) :
        /\ AuthorNotIgnored(issue.comments[j].author)
        /\ Parses(issue.comments[j].created)
        /\ ~Earlier(Instant(issue.comments[j].created),
                    Dt(now.s - 3600 * comment_lookback_hours, now.us))

LlmCalls(key) == Cardinality({j \in 1..Len(rTrace) : rTrace[j] = Call("llm", key)})

RoundReturned == rBody # <<>>

\* C2: _run_llm_round invokes the completion client exactly once for each
\* issue that has a comment left after the ignore list and the recency
\* filter, and never for an issue that has none; the list it returns holds
\* one entry per input issue, in input order.
C2_OneCompletionPerActiveIssue ==
    rMode = "run" =>
        /\ Len(rOutputs) <= Len(rIssues)
        /\ \A i \in 1..Len(rOutputs) : rOutputs[i].issue = rIssues[i]
        /\ RoundReturned => Len(rOutputs) = Len(rIssues)
        /\ \A i \in 1..Len(rIssues) :
            LlmCalls(rIssues[i].key) =
                IF i <= Len(rClocks) /\ HasRecent(rIssues[i], rClocks[i]) THEN 1 ELSE 0

\* a returned round over two issues, one with and one without recent comments
C2_Witness ==
    /\ rMode = "run"
    /\ RoundReturned
    /\ Len(rIssues) = 2
    /\ \E i, j \in 1..2 :
        /\ LlmCalls(rIssues[i].key) = 1
        /\ LlmCalls(rIssues[j].key) = 0
        /\ rIssues[j].comments # <<>>

IsPanelOpen(ev) == ev.k = "start" /\ ev.tag = MacroTag /\ ev.name = "panel"

PanelOpens(evs) == Cardinality({j \in 1..Len(evs) : IsPanelOpen(evs[j])})

\* the positions of the section headings of a page
HeadingStarts(body) == {j \in 1..Len(body) : body[j].k = "start" /\ body[j].tag = "h3"}

NthHeading(body, i) ==
    CHOOSE j \in HeadingStarts(body) :
        Cardinality({k \in HeadingStarts(body) : k <= j}) = i

\* the i-th section of a page: from its heading to the next heading
SectionOf(body, i) ==
    SubSeq(body, NthHeading(body, i),
           IF i = Cardinality(HeadingStarts(body)) THEN Len(body)
           ELSE NthHeading(body, i + 1) - 1)

\* C3: should_panel of an output is true exactly when the issue has a recent
\* comment; when it is false the narrative is the fixed no-recent-activity
\* message and the record's section of the page holds no panel macro; when
\* it is true the section wraps the narrative in exactly one panel macro (one
\* more than the narrative itself writes), which closes the section.
C3_PanelIffRecentActivity ==
    /\ \A i \in 1..Len(rOutputs) :
        /\ rOutputs[i].should_panel <=> HasRecent(rOutputs[i].issue, rClocks[i])
        /\ ~rOutputs[i].should_panel =>
               rOutputs[i].text = no_recent_activity_message(comment_lookback_hours)
    /\ RoundReturned =>
        /\ Cardinality(HeadingStarts(rBody)) = Len(rOutputs)
        /\ \A i \in 1..Len(rOutputs) :
            IF rOutputs[i].should_panel
            THEN /\ PanelOpens(SectionOf(rBody, i)) = 1 + PanelOpens(rOutputs[i].text)
                 /\ Last(SectionOf(rBody, i)) = MacroClose
            ELSE PanelOpens(SectionOf(rBody, i)) = 0

\* a rendered page with a panelled section and an unpanelled one
C3_Witness ==
    /\ RoundReturned
    /\ \E i, j \in 1..Len(rOutputs) :
        /\ rOutputs[i].should_panel
        /\ PanelOpens(SectionOf(rBody, i)) = 1
        /\ ~rOutputs[j].should_panel
        /\ PanelOpens(SectionOf(rBody, j)) = 0

StepsOf(key) == {j \in 1..Len(rTrace) : rTrace[j].key = key /\ key # ""}

PositionsOf(step) == {j \in 1..Len(rTrace) : rTrace[j].step = step}

\* the trace of the calls so far is in the order of run: the search first and
\* once; for each issue, in list order, its hydration, then its text build,
\* then its completion call, with nothing of another issue in between;
\* create_page last, once, after every issue
TraceInOrder ==
    /\ \A j \in 1..Len(rTrace) : rTrace[j].step = "search" <=> j = 1
    /\ \A j \in 1..Len(rTrace) :
        /\ rTrace[j].step = "hydrate" =>
              \E i \in 1..Len(rIssues) :
                  /\ rTrace[j].key = rIssues[i].key
                  /\ Cardinality({h \in PositionsOf("hydrate") : h < j}) = i - 1
                  /\ \A h \in 1..(j - 1) : rTrace[h].key # rIssues[i].key
        /\ rTrace[j].step = "text" =>
              j > 1 /\ rTrace[j - 1] = Call("hydrate", rTrace[j].key)
        /\ rTrace[j].step = "llm" =>
              j > 1 /\ rTrace[j - 1] = Call("text", rTrace[j].key)
        /\ rTrace[j].step = "create_page" =>
              /\ j = Len(rTrace)
              /\ Cardinality(PositionsOf("hydrate")) = Len(rIssues)
    /\ \A key \in {rIssues[i].key : i \in 1..Len(rIssues)} :
        \A j, h \in StepsOf(key) : \A m \in j..h : rTrace[m].key = key

\* where the run stands agrees with what has been done
StageInOrder ==
    /\ rPc = "start" => rTrace = <<>> /\ rBody = <<>>
    /\ rPc = "round" =>
          /\ rBody = <<>>
          /\ PositionsOf("create_page") = {}
          /\ Cardinality(PositionsOf("hydrate")) = rIdx - 1
    /\ rPc \in {"validate", "publish", "email"} =>
          /\ rBody # <<>>
          /\ Len(rOutputs) = Len(rIssues)
          /\ rMode = "run" =>
                \A i \in 1..Len(rOutputs) :
                    rOutputs[i].should_panel => LlmCalls(rIssues[i].key) = 1
    /\ rPc \in {"validate", "publish"} => rCreatePage = <<>>
    /\ rPc = "publish" => ~Malformed(rBody)
    /\ rPc = "email" =>
          /\ rTrace[Len(rTrace)] = Call("create_page", "")
          /\ rCreatePage = <<rBody>>
    /\ rCreatePage # <<>> => ~Malformed(rBody)

NextStage ==
    [start |-> {"round", "failed"}, round |-> {"round", "validate", "failed"},
     validate |-> {"publish", "failed"}, publish |-> {"email", "failed"},
     email |-> {"failed"}, failed |-> {}, idle |-> {}]

\* a step goes to the next stage or fails, and nothing follows a failure
C21_Step ==
    /\ rPc' \in NextStage[rPc] \cup {rPc}
    /\ rPc = "failed" => UNCHANGED runVars
    /\ rPc' = "failed" /\ rPc # "failed" =>
          /\ rOutputs' = rOutputs
          /\ rBody' = rBody
          /\ rPc # "publish" => rCreatePage' = rCreatePage

\* C21: in every execution of run (and of run_with_placeholder) the external
\* steps occur in order: the issue fetch, then for each issue its text build
\* followed by its completion call, then, after all of them, the record
\* assembly and page render, then the validation, then the publication, then
\* the email step; each step starts from the end of the previous one, and a
\* step that fails is followed by no other.
C21_StepsInOrder ==
    /\ [](TraceInOrder /\ StageInOrder)
    /\ [][C21_Step]_vars

\* a run over two issues, both with a completion call, reached the email step
C21_Witness ==
    /\ rMode = "run"
    /\ rPc = "email"
    /\ Len(rIssues) = 2
    /\ Cardinality(PositionsOf("llm")) = 2

\* C28: once the page has been published, run and run_with_placeholder end
\* without an error: the email step raises nothing.
C28_EmailStepRaisesNothing ==
    (rCreatePage # <<>> /\ rError # "publish") => rError = ""

(***************************************************************************)
(* Workflow._enhance_email_html: documents                                 *)
(*                                                                         *)
(* A parsed document (the BeautifulSoup object) is the list of its top     *)
(* nodes.  A node is a record: tag "#text" with its text, or an element    *)
(* with its class, its ac:name, its inline style (the list of style        *)
(* fragments appended to it) and its children.  A document string is the   *)
(* event sequence html.parser reads from it; text in a string is escaped,  *)
(* text in a node is not.                                                  *)
(***************************************************************************)
MaxTop == 1

Element4(tag, cls, name, style, kids) ==
    [tag |-> tag, cls |-> cls, name |-> name, style |-> style, text |-> <<>>,
     kids |-> kids]

TextNode(t) ==
    [tag |-> "#text", cls |-> "", name |-> "", style |-> <<>>, text |-> t,
     kids |-> <<>>]

IsText(n) == n.tag = "#text"

StartOf(n) == [k |-> "start", tag |-> n.tag, cls |-> n.cls, name |-> n.name,
               style |-> n.style]

\* Tag.decode: the events of a node list, text escaped, an empty string
\* writing nothing
RECURSIVE decode(_)
decode(kids) ==
    IF kids = <<>> THEN <<>>
    ELSE LET n == Head(kids)
         IN  (IF IsText(n)
              THEN (IF n.text = <<>> THEN <<>> ELSE <<Data(EscapeText(n.text))>>)
              ELSE <<StartOf(n)>> \o decode(n.kids) \o <<Ev("end", n.tag)>>)
             \o decode(Tail(kids))

\* adjacent strings are one run of character data in the document string
RECURSIVE MergeData(_)
MergeData(evs) ==
    IF Len(evs) < 2 THEN evs
    ELSE IF evs[1].k = "data" /\ evs[2].k = "data"
         THEN MergeData(<<Data(evs[1].text \o evs[2].text)>> \o SubSeq(evs, 3, Len(evs)))
         ELSE <<evs[1]>> \o MergeData(Tail(evs))

\* str(soup)
str_soup(soup) == MergeData(decode(soup))

AppendKid(open, n) == [open EXCEPT ![Len(open)].kids = Append(@, n)]

\* an end tag closes the innermost open element
CloseTop(open) ==
    IF Len(open) = 1 THEN open ELSE AppendKid(Front(open), Last(open))

RECURSIVE CloseAll(_)
CloseAll(open) == IF Len(open) = 1 THEN open[1].kids ELSE CloseAll(CloseTop(open))

\* BeautifulSoup(candidate, "html.parser"): the tree builder, event by event;
\* `open` is the list of the elements still open, the root first
RECURSIVE ParseFrom(_, _, _)
ParseFrom(evs, i, open) ==
    IF i > Len(evs) THEN CloseAll(open)
    ELSE CASE evs[i].k = "data" ->
                ParseFrom(evs, i + 1, AppendKid(open, TextNode(UnescapeText(evs[i].text))))
           [] evs[i].k = "start" ->
                ParseFrom(evs, i + 1,
                          Append(open, Element4(evs[i].tag, evs[i].cls, evs[i].name,
                                                evs[i].style, <<>>)))
           [] OTHER ->
                ParseFrom(evs, i + 1, CloseTop(open))

BeautifulSoup(candidate) ==
    ParseFrom(candidate, 1, <<Element4("[document]", "", "", <<>>, <<>>)>>)

(***************************************************************************)
(* Workflow._enhance_email_html: tree queries                              *)
(***************************************************************************)
\* the classes of the model that start with "confluence-information-macro"
InformationMacroClasses ==
    {"confluence-information-macro", "confluence-information-macro-body",
     "confluence-information-macro-title"}

NoNode == [tag |-> "#none", cls |-> "", name |-> "", style |-> <<>>, text |-> <<>>,
           kids |-> <<>>]

\* the elements below a node list, in document order
RECURSIVE Descendants(_)
Descendants(kids) ==
    IF kids = <<>> THEN <<>>
    ELSE LET n == Head(kids)
         IN  (IF IsText(n) THEN <<>> ELSE <<n>> \o Descendants(n.kids))
             \o Descendants(Tail(kids))

find_all(kids, tag) == SelectSeq(Descendants(kids), LAMBDA n : n.tag = tag)

select(kids, classes) == SelectSeq(Descendants(kids), LAMBDA n : n.cls \in classes)

select_one(kids, classes) ==
    LET found == select(kids, classes) IN IF found = <<>> THEN NoNode ELSE found[1]

\* soup.find("ac:structured-macro") is not None
HasMacro(soup) == find_all(soup, MacroTag) # <<>>

\* Tag.get_text(strip=True): every string stripped, the non-empty ones joined
RECURSIVE tag_get_text(_)
tag_get_text(kids) ==
    IF kids = <<>> THEN <<>>
    ELSE LET n == Head(kids)
         IN  (IF IsText(n) THEN Strip(n.text) ELSE tag_get_text(n.kids))
             \o tag_get_text(Tail(kids))

\* Tag.string, None read as the empty string (every caller writes `or ""`)
RECURSIVE string_of(_)
string_of(n) ==
    IF IsText(n) THEN n.text
    ELSE IF Len(n.kids) = 1 THEN string_of(n.kids[1]) ELSE <<>>

\* params.get(key) of the dict the builders make from
\* macro.find_all("ac:parameter"): every parameter below the macro, those of
\* nested macros included, a later one overriding an earlier one; a missing
\* key reads as the empty string.  The names of the model are lower-case.
params_get(macro, key) ==
    LET ps == SelectSeq(find_all(macro.kids, "ac:parameter"), LAMBDA q : q.name = key)
    IN  IF ps = <<>> THEN <<>> ELSE Strip(string_of(Last(ps)))

(***************************************************************************)
(* Workflow._enhance_email_html: the builders                              *)
(*                                                                         *)
(* An inline style is the list of the fragments set or appended to it; the *)
(* colours inside a fragment are left out.                                 *)
(***************************************************************************)
PanelContainerStyle == "margin:16px 0; border:1.5px solid; border-radius:3px"

PanelInnerStyle == "margin:0; padding:14px 18px; border:0; width:100%"

PanelHeadingStyle == "font-weight:600; margin:0 0 8px 0"

PanelContentStyle == "margin:0; padding:0; border:0; width:100%"

PanelChildStyle == "margin:0; background-color; color; line-height:1.3"

ListStyle == "padding-left:20px"

StatusTableStyle == "border-collapse:separate; display:inline-table"

StatusCellStyle == "padding:2px 8px; border-radius:3px; font-size:12px"

NormalizedTags == {"p", "div", "ul", "ol", "li", "table", "tbody", "tr", "td", "th", "pre"}

append_style(existing, addition) == Append(existing, addition)

set_style(styles) == <<styles>>

RECURSIVE normalize_panel_child(_)
normalize_panel_child(element) ==
    IF IsText(element) THEN element
    ELSE [element EXCEPT
            !.style = IF element.tag \in NormalizedTags
                      THEN (IF element.tag \in {"ul", "ol"}
                            THEN append_style(append_style(@, PanelChildStyle), ListStyle)
                            ELSE append_style(@, PanelChildStyle))
                      ELSE @,
            !.kids = [i \in 1..Len(@) |-> normalize_panel_child(@[i])]]

\* lines 1141-1146: every child of the body moves into the content
body_children(body_node) ==
    [i \in 1..Len(body_node.kids) |-> normalize_panel_child(body_node.kids[i])]

\* lines 1147-1165: the children of the panel itself, without blank strings
\* and without the information-macro and icon elements
RECURSIVE panel_children(_)
panel_children(kids) ==
    IF kids = <<>> THEN <<>>
    ELSE LET child == Head(kids)
         IN  (IF IsText(child)
              THEN (IF Strip(child.text) = <<>> THEN <<>> ELSE <<child>>)
              ELSE IF child.cls \in InformationMacroClasses \cup {"aui-icon"}
                   THEN <<>>
                   ELSE <<normalize_panel_child(child)>>)
             \o panel_children(Tail(kids))

\* a panel builder that leaves the panel class on what it builds
build_panel_element_KeepsClass(title_text, body_node, original_panel, include_heading) ==
    LET heading == IF include_heading /\ title_text # <<>>
                   THEN <<Element4("div", "", "", append_style(<<>>, PanelHeadingStyle),
                                   <<TextNode(title_text)>>)>>
                   ELSE <<>>
        moved   == IF body_node # NoNode THEN body_children(body_node)
                   ELSE IF original_panel # NoNode THEN panel_children(original_panel.kids)
                   ELSE <<>>
        content == Element4("div", "", "", append_style(<<>>, PanelContentStyle),
                            IF moved = <<>> THEN <<TextNode(<<>>)>> ELSE moved)
        inner   == Element4("div", "", "", append_style(<<>>, PanelInnerStyle),
                            heading \o <<content>>)
    IN  Element4("div", "panel", "", set_style(PanelContainerStyle), <<inner>>)

build_panel_element(title_text, body_node, original_panel, include_heading) ==
    LET heading == IF include_heading /\ title_text # <<>>
                   THEN <<Element4("div", "", "", append_style(<<>>, PanelHeadingStyle),
                                   <<TextNode(title_text)>>)>>
                   ELSE <<>>
        moved   == IF body_node # NoNode THEN body_children(body_node)
                   ELSE IF original_panel # NoNode THEN panel_children(original_panel.kids)
                   ELSE <<>>
        content == Element4("div", "", "", append_style(<<>>, PanelContentStyle),
                            IF moved = <<>> THEN <<TextNode(<<>>)>> ELSE moved)
        inner   == Element4("div", "", "", append_style(<<>>, PanelInnerStyle),
                            heading \o <<content>>)
    IN  Element4("div", "", "", set_style(PanelContainerStyle), <<inner>>)

first_with_tag(kids, tag) ==
    LET found == find_all(kids, tag) IN IF found = <<>> THEN NoNode ELSE found[1]

InfoWord == <<"i", "n", "f", "o">>

build_info_panel_from_macro(macro) ==
    LET title_param == params_get(macro, "title")
        \* the capitalised icon parameter stands in for a missing title, and
        \* is then never written: a heading needs a title
        icon        == <<"I", "n", "f", "o", "r", "m", "a", "t", "i", "o", "n">>
        title_text  == IF title_param # <<>> THEN title_param ELSE icon
    IN  build_panel_element(title_text, first_with_tag(macro.kids, "ac:rich-text-body"),
                            NoNode, title_param # <<>> /\ Lower(title_param) # InfoWord)

build_panel_from_macro(macro) ==
    LET title_text == params_get(macro, "title")
    IN  build_panel_element(title_text, first_with_tag(macro.kids, "ac:rich-text-body"),
                            NoNode, title_text # <<>>)

build_info_panel_from_export(panel) ==
    LET body       == IF select_one(panel.kids, {"confluence-information-macro-body"}) # NoNode
                      THEN select_one(panel.kids, {"confluence-information-macro-body"})
                      ELSE select_one(panel.kids, {"panelContent"})
        title_elem == IF select_one(panel.kids, {"confluence-information-macro-title"}) # NoNode
                      THEN select_one(panel.kids, {"confluence-information-macro-title"})
                      ELSE select_one(panel.kids, {"title-text"})
        titled     == title_elem # NoNode /\ tag_get_text(<<title_elem>>) # <<>>
        title_text == IF titled THEN tag_get_text(<<title_elem>>)
                      ELSE <<"I", "n", "f", "o">>
    IN  build_panel_element(title_text, body, panel,
                            titled /\ Lower(title_text) # InfoWord)

build_panel_from_export(panel) ==
    LET content == IF select_one(panel.kids, {"panelContent"}) # NoNode
                   THEN select_one(panel.kids, {"panelContent"})
                   ELSE select_one(panel.kids, {"panel-body"})
        header  == IF select_one(panel.kids, {"panelHeader"}) # NoNode
                   THEN select_one(panel.kids, {"panelHeader"})
                   ELSE select_one(panel.kids, {"panel-heading"})
        titled  == header # NoNode /\ tag_get_text(<<header>>) # <<>>
    IN  build_panel_element(IF titled THEN tag_get_text(<<header>>) ELSE <<>>,
                            content,
                            IF content = NoNode THEN panel ELSE NoNode,
                            titled)

StatusWord == <<"S", "t", "a", "t", "u", "s">>

\* lines 947-966: the table that stands for a status element, parsed from
\* table_html
status_table(element) ==
    LET display_text == IF tag_get_text(<<element>>) # <<>> THEN tag_get_text(<<element>>)
                        ELSE StatusWord
        table_html ==
            << [k |-> "start", tag |-> "table", cls |-> "", name |-> "",
                style |-> <<StatusTableStyle>>],
               [k |-> "start", tag |-> "tr", cls |-> "", name |-> "", style |-> <<>>],
               [k |-> "start", tag |-> "td", cls |-> "", name |-> "",
                style |-> <<StatusCellStyle>>],
               Data(html_escape(display_text)),
               Ev("end", "td"), Ev("end", "tr"), Ev("end", "table") >>
    IN  first_with_tag(BeautifulSoup(table_html), "table")

\* line 968: replace_with raises ValueError on an element that has no parent
apply_status_styles_error(has_parent) == IF has_parent THEN "" ELSE "ValueError"

\* lines 852-854: the span is made by soup.new_tag and is in no tree when
\* _apply_status_styles replaces it
build_status_span_from_macro_error == apply_status_styles_error(FALSE)

(***************************************************************************)
(* Workflow._enhance_email_html: the passes over the soup                  *)
(***************************************************************************)
StatusClasses == {"status-macro", "aui-lozenge"}

TocClasses ==
    {"toc-macro", "tocMacro", "toc-macro-section", "toc-macro-list", "toc-macro-heading"}

\* The exception _materialize_structured_macros ends with, "" if it returns.
\* The loop runs over the macros found before any was changed.  A macro of
\* another name is decomposed with every macro inside it, and those are still
\* in the list: decomposed_get_raises says whether reading ac:name of a
\* decomposed tag raises (it has no attrs any more) or reads as no name, in
\* which case the tag is decomposed again.
RECURSIVE materialize_error(_, _)
materialize_error(kids, decomposed_get_raises) ==
    IF kids = <<>> THEN ""
    ELSE LET n    == Head(kids)
             here == IF IsText(n) THEN ""
                     ELSE IF n.tag # MacroTag
                          THEN materialize_error(n.kids, decomposed_get_raises)
                     ELSE IF n.name = "status"
                          THEN build_status_span_from_macro_error
                     ELSE IF n.name \in {"info", "panel"}
                          THEN materialize_error(n.kids, decomposed_get_raises)
                     ELSE IF decomposed_get_raises /\ HasMacro(n.kids)
                          THEN "AttributeError"
                          ELSE ""
         IN  IF here # "" THEN here
             ELSE materialize_error(Tail(kids), decomposed_get_raises)

\* _materialize_structured_macros when it returns: an info or panel macro
\* becomes the panel built from it, whose content is then visited for the
\* macros that moved into it; a macro of another name goes with its subtree
RECURSIVE materialize_structured_macros(_)
materialize_structured_macros(kids) ==
    IF kids = <<>> THEN <<>>
    ELSE LET n == Head(kids)
             replaced(panel) ==
                 [panel EXCEPT !.kids = materialize_structured_macros(@)]
         IN  (IF IsText(n) THEN <<n>>
              ELSE IF n.tag # MacroTag
                   THEN <<[n EXCEPT !.kids = materialize_structured_macros(@)]>>
              ELSE IF n.name = "info" THEN <<replaced(build_info_panel_from_macro(n))>>
              ELSE IF n.name = "panel" THEN <<replaced(build_panel_from_macro(n))>>
              ELSE <<>>)
             \o materialize_structured_macros(Tail(kids))

RECURSIVE style_status_macros(_)
style_status_macros(kids) ==
    IF kids = <<>> THEN <<>>
    ELSE LET n == Head(kids)
         IN  (IF IsText(n) THEN <<n>>
              ELSE IF n.cls \in StatusClasses THEN <<status_table(n)>>
              ELSE <<[n EXCEPT !.kids = style_status_macros(@)]>>)
             \o style_status_macros(Tail(kids))

RECURSIVE style_info_macros(_)
style_info_macros(kids) ==
    IF kids = <<>> THEN <<>>
    ELSE LET n == Head(kids)
         IN  (IF IsText(n) THEN <<n>>
              ELSE IF n.cls = "confluence-information-macro"
                   THEN <<[build_info_panel_from_export(n) EXCEPT
                             !.kids = style_info_macros(@)]>>
              ELSE <<[n EXCEPT !.kids = style_info_macros(@)]>>)
             \o style_info_macros(Tail(kids))

\* an element has one class in the model, so a div.panel never carries an
\* information-macro class as well (the `continue` of line 920)
RECURSIVE style_panel_macros(_)
style_panel_macros(kids) ==
    IF kids = <<>> THEN <<>>
    ELSE LET n == Head(kids)
         IN  (IF IsText(n) THEN <<n>>
              ELSE IF n.tag = "div" /\ n.cls = "panel"
                   THEN <<[build_panel_from_export(n) EXCEPT
                             !.kids = style_panel_macros(@)]>>
              ELSE <<[n EXCEPT !.kids = style_panel_macros(@)]>>)
             \o style_panel_macros(Tail(kids))

RECURSIVE strip_table_of_contents(_)
strip_table_of_contents(kids) ==
    IF kids = <<>> THEN <<>>
    ELSE LET n == Head(kids)
         IN  (IF IsText(n) THEN <<n>>
              ELSE IF n.cls \in TocClasses THEN <<>>
              ELSE <<[n EXCEPT !.kids = strip_table_of_contents(@)]>>)
             \o strip_table_of_contents(Tail(kids))

(***************************************************************************)
(* Workflow._enhance_email_html: the documents it is given                 *)
(*                                                                         *)
(* An input is written from a tree whose strings are the characters of the *)
(* markup itself, so that a bare "&" and an escaped "&amp;lt;" both occur. *)
(***************************************************************************)
RawTexts ==
    { <<"x">>, <<"&">>, <<"&", "a", "m", "p", ";", "l", "t", ";">>, <<" ">> }

RECURSIVE Markup(_)
Markup(kids) ==
    IF kids = <<>> THEN <<>>
    ELSE LET n == Head(kids)
         IN  (IF IsText(n) THEN <<Data(n.text)>>
              ELSE <<StartOf(n)>> \o Markup(n.kids) \o <<Ev("end", n.tag)>>)
             \o Markup(Tail(kids))

Plain(tag, kids) == Element4(tag, "", "", <<>>, kids)

MacroParameter(name, value) ==
    Element4("ac:parameter", "", name, <<>>, <<TextNode(value)>>)

StatusMacro ==
    Element4(MacroTag, "", "status", <<>>, <<MacroParameter("title", <<"D">>)>>)

TocMacro == Element4(MacroTag, "", "toc", <<>>, <<Plain("ac:rich-text-body", <<>>)>>)

Lozenge(t) == Element4("span", "aui-lozenge", "", <<>>, <<TextNode(t)>>)

TocElement == Element4("div", "toc-macro", "", <<>>, <<TextNode(<<"x">>)>>)

EmailKinds ==
    {"info", "panel", "expand", "export-info", "export-panel", "bare-panel", "p", "ul"}

Wrap(kind, kids) ==
    CASE kind = "info" ->
           Element4(MacroTag, "", "info", <<>>,
                    <<MacroParameter("icon", <<"i">>), Plain("ac:rich-text-body", kids)>>)
      [] kind = "panel" ->
           Element4(MacroTag, "", "panel", <<>>,
                    <<MacroParameter("title", <<"T", "&">>), Plain("ac:rich-text-body", kids)>>)
      [] kind = "expand" ->
           Element4(MacroTag, "", "expand", <<>>, <<Plain("ac:rich-text-body", kids)>>)
      [] kind = "export-info" ->
           Element4("div", "confluence-information-macro", "", <<>>,
                    <<Element4("span", "aui-icon", "", <<>>, <<>>),
                      Element4("div", "confluence-information-macro-body", "", <<>>, kids)>>)
      [] kind = "export-panel" ->
           Element4("div", "panel", "", <<>>,
                    <<Element4("div", "panelContent", "", <<>>, kids)>>)
      [] kind = "bare-panel" ->
           Element4("div", "panel", "", <<>>, kids)
      [] OTHER -> Plain(kind, kids)

EmailLeaves ==
    {TextNode(t) : t \in RawTexts}
        \cup {Lozenge(<<"&">>), Lozenge(<<" ">>), TocElement, StatusMacro, TocMacro}

EmailInner ==
    {Wrap(kind, kids) : kind \in EmailKinds,
                        kids \in {<<TextNode(<<"x">>)>>, <<Lozenge(<<"&">>)>>}}

EmailKidLists ==
    {<<>>} \cup {<<n>> : n \in EmailLeaves \cup EmailInner}
           \cup { <<TextNode(<<"x">>), TocMacro, TextNode(<<"&">>)>>,
                  <<Wrap("info", <<>>), StatusMacro>>,
                  <<TextNode(<<" ">>), Wrap("export-info", <<TextNode(<<"x">>)>>)>> }

EmailNodes == EmailLeaves \cup {Wrap(kind, kids) : kind \in EmailKinds, kids \in EmailKidLists}

EmailInputs == {Markup(top) : top \in SeqsUpTo(EmailNodes, MaxTop)}

ExportClasses ==
    StatusClasses \cup TocClasses \cup InformationMacroClasses
        \cup {"panel", "panelContent", "aui-icon"}

\* a storage-format document: none of the classes of an exported page
StorageFormat(candidate) == select(BeautifulSoup(candidate), ExportClasses) = <<>>

(***************************************************************************)
(* Workflow._enhance_email_html, pass by pass                              *)
(***************************************************************************)
EmailIdle ==
    /\ eInput = <<>>
    /\ eCandidate = <<>>
    /\ ePass = 1
    /\ eStage = "idle"
    /\ eSoup = <<>>
    /\ eOut1 = <<>>
    /\ eOut = <<>>
    /\ eError = ""

EmailOthersUnchanged ==
    UNCHANGED <<valVars, menVars, cfgVars, recVars, runVars, fnVars>>

EmailReturn(soup) ==
    /\ eStage' = "returned"
    /\ eSoup' = soup
    /\ eOut' = str_soup(soup)
    /\ eOut1' = IF ePass = 1 THEN str_soup(soup) ELSE eOut1

\* lines 813-815
EnhanceEmpty ==
    /\ eStage = "call"
    /\ eCandidate = <<>>
    /\ eStage' = "returned"
    /\ eOut' = <<>>
    /\ eOut1' = IF ePass = 1 THEN <<>> ELSE eOut1
    /\ UNCHANGED <<eInput, eCandidate, ePass, eSoup, eError>>
    /\ EmailOthersUnchanged

\* line 816
EnhanceParse ==
    /\ eStage = "call"
    /\ eCandidate # <<>>
    /\ eSoup' = BeautifulSoup(eCandidate)
    /\ eStage' = "parsed"
    /\ UNCHANGED <<eInput, eCandidate, ePass, eOut1, eOut, eError>>
    /\ EmailOthersUnchanged

\* lines 819-820, the loop running to its end
MaterializeMacros ==
    /\ eStage = "parsed"
    /\ HasMacro(eSoup)
    /\ \E decomposed_get_raises \in BOOLEAN :
           materialize_error(eSoup, decomposed_get_raises) = ""
    /\ eSoup' = materialize_structured_macros(eSoup)
    /\ eStage' = "materialized"
    /\ UNCHANGED <<eInput, eCandidate, ePass, eOut1, eOut, eError>>
    /\ EmailOthersUnchanged

\* lines 819-820, the loop ending in an exception, which nothing in
\* _enhance_email_html catches
MaterializeRaises ==
    /\ eStage = "parsed"
    /\ HasMacro(eSoup)
    /\ \E decomposed_get_raises \in BOOLEAN :
           /\ materialize_error(eSoup, decomposed_get_raises) # ""
           /\ eError' = materialize_error(eSoup, decomposed_get_raises)
    /\ eStage' = "raised"
    /\ UNCHANGED <<eInput, eCandidate, ePass, eSoup, eOut1, eOut>>
    /\ EmailOthersUnchanged

\* line 819 finding no macro
NoMacroFound ==
    /\ eStage = "parsed"
    /\ ~HasMacro(eSoup)
    /\ eStage' = "materialized"
    /\ UNCHANGED <<eInput, eCandidate, ePass, eSoup, eOut1, eOut, eError>>
    /\ EmailOthersUnchanged

\* line 822
StyleStatusMacros ==
    /\ eStage = "materialized"
    /\ eSoup' = style_status_macros(eSoup)
    /\ eStage' = "status"
    /\ UNCHANGED <<eInput, eCandidate, ePass, eOut1, eOut, eError>>
    /\ EmailOthersUnchanged

\* line 823
StyleInfoMacros ==
    /\ eStage = "status"
    /\ eSoup' = style_info_macros(eSoup)
    /\ eStage' = "info"
    /\ UNCHANGED <<eInput, eCandidate, ePass, eOut1, eOut, eError>>
    /\ EmailOthersUnchanged

\* line 824
StylePanelMacros ==
    /\ eStage = "info"
    /\ eSoup' = style_panel_macros(eSoup)
    /\ eStage' = "panel"
    /\ UNCHANGED <<eInput, eCandidate, ePass, eOut1, eOut, eError>>
    /\ EmailOthersUnchanged

\* lines 825-826
StripAndReturn ==
    /\ eStage = "panel"
    /\ EmailReturn(strip_table_of_contents(eSoup))
    /\ UNCHANGED <<eInput, eCandidate, ePass, eError>>
    /\ EmailOthersUnchanged

\* the adapter applied to what it returned
EnhanceOutput ==
    /\ eStage = "returned"
    /\ ePass = 1
    /\ ePass' = 2
    /\ eCandidate' = eOut
    /\ eStage' = "call"
    /\ eSoup' = <<>>
    /\ eOut' = <<>>
    /\ UNCHANGED <<eInput, eOut1, eError>>
    /\ EmailOthersUnchanged

(***************************************************************************)
(* Claims about the email adapter                                          *)
(***************************************************************************)
EmailParsedStages == {"parsed", "materialized", "status", "info", "panel", "returned"}

\* C9: the email adapter is idempotent.  When the first call returned a
\* non-empty document, the call on that document raises nothing, finds no
\* macro to materialize, leaves the soup at every pass as it was parsed (no
\* status, info or panel element restyled, nothing stripped), writes it back
\* with no further escaping, and returns exactly the document it was given.
C9_SecondPassIsIdentity ==
    (ePass = 2 /\ eOut1 # <<>>) =>
        /\ eError = ""
        /\ eStage # "raised"
        /\ eStage \in EmailParsedStages =>
              /\ ~HasMacro(eSoup)
              /\ eSoup = BeautifulSoup(eOut1)
              /\ str_soup(eSoup) = eOut1
        /\ eStage = "returned" => eOut = eOut1

\* a second call has returned on the output of a first call that materialized
\* a macro and restyled a status element, and that output is not the input
C9_Witness ==
    /\ ePass = 2
    /\ eStage = "returned"
    /\ eOut1 # <<>>
    /\ eOut1 # eInput
    /\ HasMacro(BeautifulSoup(eInput))
    /\ select(BeautifulSoup(eInput), StatusClasses) # <<>>

\* C10: for every storage-format input the call returns normally, and what it
\* returns holds no macro element.
C10_StorageInputReturnsWithoutMacros ==
    (ePass = 1 /\ StorageFormat(eInput)) =>
        /\ eError = ""
        /\ eStage = "returned" => ~HasMacro(BeautifulSoup(eOut))

(***************************************************************************)
(* renderers.build_confluence_storage on its own                           *)
(***************************************************************************)
MaxRecords == 2

StatusDone == <<"D", "o", "n", "e">>

StatusOpen == <<"O", "p", "e", "n">>

MappedLabel == <<"L">>

\* a render record whose strings are all made from t
RenderBlock(t, status, is_impediment, labels, components, llm_text, should_panel) ==
    [key |-> <<"K">> \o t,
     summary |-> <<"S">> \o t,
     assignee_name |-> <<"A">> \o t,
     assignee_url |-> IF t = <<"a">> THEN NoText ELSE <<"U">> \o t,
     reporter_name |-> <<"R">> \o t,
     priority_name |-> <<"P">> \o t,
     labels |-> labels,
     components |-> components,
     status |-> status,
     is_impediment |-> is_impediment,
     product |-> <<"O">> \o t,
     customer |-> <<"C">> \o t,
     llm_text |-> llm_text,
     should_panel |-> should_panel]

\* a record with nothing but its key
BareBlock ==
    [key |-> <<"K">>, summary |-> NoText, assignee_name |-> NoText,
     assignee_url |-> NoText, reporter_name |-> NoText, priority_name |-> NoText,
     labels |-> <<>>, components |-> <<>>, status |-> StatusDone,
     is_impediment |-> FALSE, product |-> NoText, customer |-> NoText,
     llm_text |-> no_recent_activity_message(24), should_panel |-> FALSE]

\* render records: every field with a plain letter, a bare ampersand, text
\* that already looks escaped, an angle bracket and a quote; statuses that
\* are done names as written, padded and in capitals, open and missing;
\* narratives that are plain, empty, with a literal tag pair, with a tag left
\* open and with a literal macro; an impediment with labels and components
RenderBlocks ==
    {RenderBlock(<<"a">>, StatusOpen \o <<"&", "<">>, FALSE, <<>>, <<>>,
                 <<Data("words")>>, TRUE),
     RenderBlock(<<"a">>, StatusOpen, FALSE, <<>>, <<>>, <<>>, TRUE),
     RenderBlock(<<"&">>, StatusDone, TRUE, <<MappedLabel, <<"&", "<">>>>,
                 <<<<"c", "<">>, <<"\"">>>>, <<>>, FALSE),
     RenderBlock(<<"&", "l", "t", ";">>, <<" ", "D", "o", "n", "e">>, FALSE, <<>>, <<>>,
                 <<Ev("start", "b"), Data("words"), Ev("end", "b")>>, TRUE),
     RenderBlock(<<"<">>, <<"C", "L", "O", "S", "E", "D">>, FALSE, <<>>, <<>>,
                 <<Ev("start", "b"), Data("words")>>, TRUE),
     RenderBlock(<<"\"">>, NoText, FALSE, <<>>, <<>>,
                 <<MacroOpen("panel"), MacroClose>>, TRUE),
     RenderBlock(<<"a">>, StatusDone, FALSE, <<MappedLabel>>, <<>>,
                 <<Data("words")>>, TRUE),
     BareBlock}

RenderBlockLists == SeqsUpTo(RenderBlocks, MaxRecords)

\* defaults.LABEL_STATUS_MAP, the filter id and the filter name
RenderSettings ==
    {[label_status_map |-> LABEL_STATUS_MAP, filter_id |-> <<"7">>, filter_name |-> NoText],
     [label_status_map |-> [label \in {MappedLabel} |-> <<"R", "e", "d">>],
      filter_id |-> <<"&", "<", " ">>,
      filter_name |-> <<"\"", "&", "l", "t", ";">>]}

RenderOthersUnchanged ==
    UNCHANGED <<valVars, menVars, cfgVars, recVars, runVars, emlVars, impVars, colVars, extVars>>

\* one call of build_confluence_storage; the clock is read at line 53
Render ==
    /\ Len(rdOut) < 2
    /\ \E timestamp \in RenderStamps :
        /\ rdTimes' = Append(rdTimes, timestamp)
        /\ rdOut' = Append(rdOut,
               build_confluence_storage(timestamp, rdArgs.label_status_map,
                                        rdArgs.filter_id, rdArgs.filter_name,
                                        rdArgs.total_issues, rdArgs.issue_blocks))
    /\ UNCHANGED rdArgs
    /\ RenderOthersUnchanged

(***************************************************************************)
(* Claims about the storage renderer                                       *)
(***************************************************************************)
IsMacroOpen(ev, name) == ev.k = "start" /\ ev.tag = MacroTag /\ ev.name = name

IsMacroClose(ev) == ev.k = "end" /\ ev.tag = MacroTag

FirstWhere(evs, from, P(_)) ==
    IF \E j \in from..Len(evs) : P(evs[j])
    THEN CHOOSE j \in from..Len(evs) : P(evs[j]) /\ \A h \in from..(j - 1) : ~P(evs[h])
    ELSE 0

HasField(ev) == "field" \in DOMAIN ev

ValueOf(ev) == IF ev.k = "start" THEN ev.href ELSE ev.text

(* ---- C11 ---- *)
\* C11: the page opens with the table-of-contents macro, the info panel
\* follows it, and after the info panel come the sections and nothing else:
\* as many headings as records, and the link text of the i-th heading is the
\* (escaped) key of the i-th record.
C11_OneSectionPerRecordInOrder ==
    \A c \in 1..Len(rdOut) :
        LET out      == rdOut[c]
            blocks   == rdArgs.issue_blocks
            tocEnd   == FirstWhere(out, 1, IsMacroClose)
            infoEnd  == FirstWhere(out, tocEnd + 1, IsMacroClose)
        IN  /\ IsMacroOpen(out[1], "toc")
            /\ IsMacroOpen(out[tocEnd + 1], "info")
            /\ Cardinality(HeadingStarts(out)) = Len(blocks)
            /\ IF blocks = <<>> THEN infoEnd = Len(out)
               ELSE NthHeading(out, 1) = infoEnd + 1
            /\ \A i \in 1..Len(blocks) :
                 LET h == NthHeading(out, i)
                 IN  /\ HasField(out[h + 2])
                     /\ out[h + 2].field = <<"key", 0>>
                     /\ UnescapeText(out[h + 2].text) = blocks[i].key

\* a page was rendered from two records with different keys
C11_Witness ==
    /\ rdOut # <<>>
    /\ Len(rdArgs.issue_blocks) = 2
    /\ rdArgs.issue_blocks[1].key # rdArgs.issue_blocks[2].key
    /\ Cardinality(HeadingStarts(rdOut[1])) = 2

(* ---- C12 ---- *)
\* C12: two calls with identical arguments return identical strings, whatever
\* the time of each call.
C12_SameArgumentsSameString ==
    Len(rdOut) = 2 => rdOut[1] = rdOut[2]

(* ---- C13 ---- *)
\* C13: the structure validator reports no error on a rendered page.
C13_RenderedPageIsBalanced ==
    \A c \in 1..Len(rdOut) : ValidateEvents(rdOut[c]) = <<>>

(* ---- C14 ---- *)
UserFields ==
    {"key", "summary", "assignee_name", "assignee_url", "reporter_name",
     "priority_name", "product", "customer"}

\* the string an insertion has to stand for
RawOf(block, ev) ==
    CASE ev.field[1] = "key" ->
            IF ev.k = "start" THEN BaseUrl \o <<"/browse/">> \o block.key ELSE block.key
      [] ev.field[1] = "status" -> Strip(block.status)
      [] ev.field[1] = "label" -> block.labels[ev.field[2]]
      [] ev.field[1] = "component" -> block.components[ev.field[2]]
      [] OTHER -> block[ev.field[1]]

RawOfFilter(ev) ==
    IF ev.field[1] = "filter_name" THEN rdArgs.filter_name
    ELSE IF ev.k = "start"
         THEN BaseUrl \o <<"/issues/?filter=">> \o quote_plus(rdArgs.filter_id)
         ELSE rdArgs.filter_id

\* escaped once: reading the markup back gives the string, and no bare angle
\* bracket is left in it
EscapedOnce(value, raw) ==
    /\ UnescapeText(value) = raw
    /\ \A x \in 1..Len(value) : value[x] # "<"

FieldsOf(evs) == {j \in 1..Len(evs) : HasField(evs[j])}

\* C14: every user-sourced string is in the page escaped exactly once: each
\* insertion, read back once, is the string it came from (the URL built from
\* it, for a link), and every non-empty field of a record is inserted in the
\* record's section, the filter id and name in the info panel.
C14_EscapedExactlyOnce ==
    \A c \in 1..Len(rdOut) :
        LET out    == rdOut[c]
            blocks == rdArgs.issue_blocks
            panel  == SubSeq(out, 1, IF blocks = <<>> THEN Len(out)
                                     ELSE NthHeading(out, 1) - 1)
        IN  /\ \A j \in FieldsOf(panel) : EscapedOnce(ValueOf(panel[j]), RawOfFilter(panel[j]))
            /\ \E j \in FieldsOf(panel) : panel[j].field = <<"filter_id", 0>> /\ panel[j].k = "data"
            /\ rdArgs.filter_name # NoText =>
                  \E j \in FieldsOf(panel) : panel[j].field = <<"filter_name", 0>>
            /\ \A i \in 1..Len(blocks) :
                 LET sec == SectionOf(out, i)
                 IN  /\ \A j \in FieldsOf(sec) :
                            EscapedOnce(ValueOf(sec[j]), RawOf(blocks[i], sec[j]))
                     /\ \A name \in UserFields :
                            blocks[i][name] # NoText =>
                                \E j \in FieldsOf(sec) : sec[j].field = <<name, 0>>
                     /\ Strip(blocks[i].status) # NoText =>
                            \E j \in FieldsOf(sec) : sec[j].field = <<"status", 0>>
                     /\ \A x \in 1..Len(blocks[i].labels) :
                            \E j \in FieldsOf(sec) : sec[j].field = <<"label", x>>
                     /\ \A x \in 1..Len(blocks[i].components) :
                            \E j \in FieldsOf(sec) : sec[j].field = <<"component", x>>

\* a page was rendered from a record whose strings hold an ampersand, with a
\* mapped label, components and a filter name that hold markup characters
C14_Witness ==
    /\ rdOut # <<>>
    /\ rdArgs.filter_name # NoText
    /\ \E i \in 1..Len(rdArgs.issue_blocks) :
        /\ rdArgs.issue_blocks[i].key = <<"K", "&">>
        /\ Len(rdArgs.issue_blocks[i].labels) = 2
    /\ \E i \in 1..Len(rdArgs.issue_blocks) :
        rdArgs.issue_blocks[i].key = <<"K", "&", "l", "t", ";">>

(* ---- C15 ---- *)
IsLiteralTag(ev) == ev.k = "start" /\ ev.tag = "b"

\* C15: a tag written literally in the narrative of a record is not in the
\* record's section as a tag.
C15_NoLiteralTagPassedThrough ==
    \A c \in 1..Len(rdOut) :
        \A i \in 1..Len(rdArgs.issue_blocks) :
            (\E j \in 1..Len(rdArgs.issue_blocks[i].llm_text) :
                 IsLiteralTag(rdArgs.issue_blocks[i].llm_text[j]))
            => \A j \in 1..Len(SectionOf(rdOut[c], i)) :
                 ~IsLiteralTag(SectionOf(rdOut[c], i)[j])

(* ---- C20 ---- *)
IsStartOf(ev, tag) == ev.k = "start" /\ ev.tag = tag

IsEndOf(ev, tag) == ev.k = "end" /\ ev.tag = tag

IsStartP(ev) == IsStartOf(ev, "p")

IsEndP(ev) == IsEndOf(ev, "p")

\* the metadata line of a section: its first paragraph
MetaLine(sec) ==
    SubSeq(sec, FirstWhere(sec, 1, IsStartP), FirstWhere(sec, 1, IsEndP))

\* a green status macro whose title is the status of the record
StatusBadgeAt(line, j) ==
    /\ IsMacroOpen(line[j], "status")
    /\ j + 5 <= Len(line)
    /\ HasField(line[j + 5])
    /\ line[j + 5].field = <<"status", 0>>
    /\ line[j + 2].text = "Green"

StatusBadges(line) == {j \in 1..Len(line) : StatusBadgeAt(line, j)}

StatusMacros(line) == {j \in 1..Len(line) : IsMacroOpen(line[j], "status")}

\* the status written as text, right after its caption
PlainStatusAt(line, j) ==
    /\ j > 1
    /\ IsEndOf(line[j - 1], "strong")
    /\ line[j].k = "data"
    /\ line[j - 2].text = "Status:"

MappedLabels(block) ==
    {x \in 1..Len(block.labels) : block.labels[x] \in DOMAIN rdArgs.label_status_map}

\* what C20 says of one record, `done` being the test that decides the badge
StatusRendering(block, line, done) ==
    /\ Cardinality(StatusBadges(line)) = IF done THEN 1 ELSE 0
    /\ ~done =>
          /\ \E j \in 1..Len(line) :
                /\ PlainStatusAt(line, j)
                /\ IF HasField(line[j])
                   THEN line[j].text = html_escape(Strip(block.status))
                   ELSE line[j].text = "Unknown"
          /\ Cardinality(StatusMacros(line)) =
                (IF block.is_impediment THEN 1 ELSE 0) + Cardinality(MappedLabels(block))
    /\ (done /\ ~block.is_impediment /\ MappedLabels(block) = {}) =>
          Cardinality(StatusMacros(line)) = 1

DoneNames ==
    {<<"d", "o", "n", "e">>, <<"c", "l", "o", "s", "e", "d">>,
     <<"r", "e", "s", "o", "l", "v", "e", "d">>,
     <<"c", "a", "n", "c", "e", "l", "l", "e", "d">>}

Impediment == <<"i", "m", "p", "e", "d", "i", "m", "e", "n", "t">>

\* sub in t
Contains(t, sub) ==
    \E i \in 1..(Len(t) - Len(sub) + 1) : SubSeq(t, i, i + Len(sub) - 1) = sub

\* JSON values of the designated custom field: None, a string, a number, an
\* object (its values, in order) and a list
JNone == [t |-> "none"]

JStr(text) == [t |-> "str", text |-> text]

JNum == [t |-> "num"]

JDict(values) == [t |-> "dict", items |-> values]

JList(entries) == [t |-> "list", items |-> entries]

\* Workflow._custom_field_contains_impediment
RECURSIVE custom_field_contains_impediment(_)
custom_field_contains_impediment(value) ==
    CASE value.t = "dict" ->
            \E j \in 1..Len(value.items) :
                LET sub_value == value.items[j]
                IN  \/ sub_value.t = "str" /\ Contains(Lower(sub_value.text), Impediment)
                    \/ /\ sub_value.t \in {"dict", "list"}
                       /\ custom_field_contains_impediment(sub_value)
      [] value.t = "list" ->
            \E j \in 1..Len(value.items) :
                custom_field_contains_impediment(value.items[j])
      [] value.t = "str" -> Contains(Lower(value.text), Impediment)
      [] OTHER -> FALSE

\* an entry of fields.flagged: a dict with a name and a value, NoText when
\* the key is missing
FlagEntry(name, value) == [name |-> name, value |-> value]

\* lines 719-730: name = item.get("name") or item.get("value") or ""
flag_entry_matches(item) ==
    LET name == IF item.name # NoText THEN item.name ELSE item.value
    IN  Contains(Lower(name), Impediment)

\* Workflow._is_impediment
is_impediment(issue) ==
    \/ \E j \in 1..Len(issue.flagged) : flag_entry_matches(issue.flagged[j])
    \/ issue.customfield_16801.t # "none"
            /\ custom_field_contains_impediment(issue.customfield_16801)
    \/ Lower(issue.status) = Impediment

TextFlag == <<"F", "l", "a", "g">>

TextImpediment == <<"I", "m", "p", "e", "d", "i", "m", "e", "n", "t">>

TextAnImpediment == <<"a", "n", " ", "I", "M", "P", "E", "D", "I", "M", "E", "N", "T", "!">>

TextImpeded == <<"i", "m", "p", "e", "d", "e", "d">>

FlagLists ==
    {<<>>,
     <<FlagEntry(NoText, TextImpediment)>>,
     <<FlagEntry(TextAnImpediment, NoText)>>,
     <<FlagEntry(TextFlag, NoText)>>,
     <<FlagEntry(NoText, TextImpeded)>>,
     <<FlagEntry(TextFlag, TextImpediment)>>,
     <<FlagEntry(TextImpediment, TextFlag)>>,
     <<FlagEntry(TextFlag, TextFlag), FlagEntry(NoText, TextAnImpediment)>>}

CustomFields ==
    {JNone,
     JNum,
     JStr(TextFlag),
     JStr(TextAnImpediment),
     JDict(<<JStr(TextFlag), JNum>>),
     JDict(<<JNum, JStr(TextImpediment)>>),
     JDict(<<JDict(<<JList(<<JStr(TextImpediment)>>)>>)>>),
     JList(<<JStr(TextFlag), JDict(<<JStr(TextAnImpediment)>>)>>),
     JList(<<JList(<<JNum, JStr(TextImpeded)>>)>>)}

ImpedimentStatuses == {NoText, StatusOpen, TextImpediment, TextAnImpediment}

ImpedimentIssues ==
    {[flagged |-> f, customfield_16801 |-> c, status |-> st] :
        f \in FlagLists, c \in CustomFields, st \in ImpedimentStatuses}

\* one call of _is_impediment
IsImpediment ==
    /\ ~iCalled
    /\ iCalled' = TRUE
    /\ iResult' = is_impediment(iIssue)
    /\ UNCHANGED iIssue
    /\ UNCHANGED <<valVars, menVars, cfgVars, recVars, runVars, emlVars, rndVars, colVars, extVars>>

\* every string reachable from a value by going through objects and lists
RECURSIVE ReachableStrings(_)
ReachableStrings(value) ==
    CASE value.t = "str" -> {value.text}
      [] value.t \in {"dict", "list"} ->
            UNION {ReachableStrings(value.items[j]) : j \in 1..Len(value.items)}
      [] OTHER -> {}

FlagListMatches(issue) ==
    \E j \in 1..Len(issue.flagged) :
        \/ Contains(Lower(issue.flagged[j].name), Impediment)
        \/ Contains(Lower(issue.flagged[j].value), Impediment)

CustomFieldMatches(issue) ==
    \E text \in ReachableStrings(issue.customfield_16801) :
        Contains(Lower(text), Impediment)

StatusMatches(issue) == Lower(issue.status) = Impediment

\* C17: _is_impediment returns true exactly when (a) some flag entry has a
\* name or a value containing "impediment", or (b) some string reachable in
\* the custom field contains it, or (c) the status name is "impediment",
\* case-insensitively.
C17_TrueIffAnyOfThree ==
    iCalled =>
        (iResult <=> \/ FlagListMatches(iIssue)
                     \/ CustomFieldMatches(iIssue)
                     \/ StatusMatches(iIssue))

(***************************************************************************)
(* Status colours: _normalise_colour, _status_text_colour and the head of  *)
(* _apply_status_styles                                                    *)
(***************************************************************************)
DEFAULT_STATUS_HEX == <<"#", "7", "A", "8", "6", "9", "A">>

SUBTLE_BACKGROUND_HEX == <<"#", "D", "F", "E", "1", "E", "6">>

SUBTLE_BORDER_HEX == <<"#", "A", "5", "A", "D", "B", "A">>

DEFAULT_TEXT_COLOR == <<"#", "1", "7", "2", "B", "4", "D">>

White == <<"#", "F", "F", "F", "F", "F", "F">>

PaletteNames ==
    {<<"r", "e", "d">>,
     <<"y", "e", "l", "l", "o", "w">>,
     <<"g", "r", "e", "e", "n">>,
     <<"b", "l", "u", "e">>,
     <<"g", "r", "e", "y">>,
     <<"g", "r", "a", "y">>,
     <<"p", "u", "r", "p", "l", "e">>,
     <<"t", "e", "a", "l">>,
     <<"l", "i", "m", "e">>,
     <<"b", "r", "o", "w", "n">>}

STATUS_NAME_HEX(name) ==
    CASE
         name = <<"r", "e", "d">> -> <<"#", "F", "F", "5", "6", "3", "0">>
      [] name = <<"y", "e", "l", "l", "o", "w">> -> <<"#", "F", "F", "A", "B", "0", "0">>
      [] name = <<"g", "r", "e", "e", "n">> -> <<"#", "3", "6", "B", "3", "7", "E">>
      [] name = <<"b", "l", "u", "e">> -> <<"#", "4", "C", "9", "A", "F", "F">>
      [] name = <<"g", "r", "e", "y">> -> <<"#", "6", "B", "7", "7", "8", "C">>
      [] name = <<"g", "r", "a", "y">> -> <<"#", "6", "B", "7", "7", "8", "C">>
      [] name = <<"p", "u", "r", "p", "l", "e">> -> <<"#", "6", "5", "5", "4", "C", "0">>
      [] name = <<"t", "e", "a", "l">> -> <<"#", "0", "0", "B", "8", "D", "9">>
      [] name = <<"l", "i", "m", "e">> -> <<"#", "A", "5", "D", "7", "5", "3">>
      [] name = <<"b", "r", "o", "w", "n">> -> <<"#", "8", "C", "6", "E", "6", "4">>

Digits == <<"0", "1", "2", "3", "4", "5", "6", "7", "8", "9">>

UpperHexDigits == Digits \o <<"A", "B", "C", "D", "E", "F">>

IsDigit(c) == \E d \in 1..10 : Digits[d] = c

DigitValue(c) == (CHOOSE d \in 1..10 : Digits[d] = c) - 1

IsUpperHex(c) == \E d \in 1..16 : UpperHexDigits[d] = c

IsHex(c) == IsUpperHex(UpperChar(c))

HexValue(c) == (CHOOSE d \in 1..16 : UpperHexDigits[d] = UpperChar(c)) - 1

StartsWith(t, prefix) == Len(t) >= Len(prefix) /\ SubSeq(t, 1, Len(prefix)) = prefix

\* re.findall(r"\d+", text): the maximal runs of digits, as numbers; a run
\* beyond 255 counts as 256, which the clamp treats alike
RECURSIVE DigitRunsFrom(_, _, _, _)
DigitRunsFrom(t, i, inRun, n) ==
    IF i > Len(t) THEN (IF inRun THEN <<n>> ELSE <<>>)
    ELSE IF IsDigit(t[i])
         THEN LET m == 10 * (IF inRun THEN n ELSE 0) + DigitValue(t[i])
              IN  DigitRunsFrom(t, i + 1, TRUE, IF m > 255 THEN 256 ELSE m)
         ELSE (IF inRun THEN <<n>> ELSE <<>>) \o DigitRunsFrom(t, i + 1, FALSE, 0)

DigitRuns(t) == DigitRunsFrom(t, 1, FALSE, 0)

Clamp255(n) == IF n > 255 THEN 255 ELSE IF n < 0 THEN 0 ELSE n

\* format(n, "02X")
Hex2(n) == <<UpperHexDigits[(n \div 16) + 1], UpperHexDigits[(n % 16) + 1]>>

NoColour == <<"None">>

\* Workflow._normalise_colour; NoColour is None
normalise_colour(value) ==
    LET colour == Strip(value)
        lower  == Lower(colour)
        parts  == DigitRuns(lower)
    IN  IF colour = NoText THEN NoColour
        ELSE IF lower \in PaletteNames THEN STATUS_NAME_HEX(lower)
        ELSE IF StartsWith(lower, <<"#">>) /\ Len(lower) = 4
             THEN Upper(<<"#", lower[2], lower[2], lower[3], lower[3], lower[4], lower[4]>>)
        ELSE IF StartsWith(lower, <<"#">>) /\ Len(lower) = 7 THEN Upper(lower)
        ELSE IF StartsWith(lower, <<"r", "g", "b">>) /\ Len(parts) >= 3
             THEN <<"#">> \o Hex2(Clamp255(parts[1])) \o Hex2(Clamp255(parts[2]))
                          \o Hex2(Clamp255(parts[3]))
        ELSE NoColour

RECURSIVE LStripHash(_)
LStripHash(t) == IF t # <<>> /\ Head(t) = "#" THEN LStripHash(Tail(t)) ELSE t

\* hex_code[i : i + 2] for i counted from 0
Slice2(t, i) == SubSeq(t, i + 1, IF i + 2 <= Len(t) THEN i + 2 ELSE Len(t))

\* int(s, 16) on a slice of at most two characters succeeds: hexadecimal
\* digits, with one sign in front or one blank on either side
parses16(s) ==
    \/ Len(s) = 1 /\ IsHex(s[1])
    \/ Len(s) = 2 /\ IsHex(s[1]) /\ (IsHex(s[2]) \/ s[2] = " ")
    \/ Len(s) = 2 /\ s[1] \in {"+", "-", " "} /\ IsHex(s[2])

\* its value when it does
int16(s) ==
    IF Len(s) = 1 THEN HexValue(s[1])
    ELSE IF IsHex(s[1]) /\ IsHex(s[2]) THEN 16 * HexValue(s[1]) + HexValue(s[2])
    ELSE IF s[1] = "-" THEN 0 - HexValue(s[2])
    ELSE IF IsHex(s[1]) THEN HexValue(s[1])
    ELSE HexValue(s[2])

\* the (r, g, b) whose exact brightness is 170 and whose double-precision sum
\* (0.299 * r) + (0.587 * g) + (0.114 * b) is 169.99999999999997
RoundsBelow170 ==
    {<<13, 249, 175>>,
     <<17, 239, 216>>,
     <<43, 231, 189>>,
     <<46, 252, 73>>,
     <<68, 254, 5>>,
     <<69, 223, 162>>,
     <<72, 244, 46>>,
     <<84, 214, 169>>,
     <<98, 236, 19>>,
     <<99, 205, 176>>,
     <<114, 196, 183>>,
     <<129, 187, 190>>,
     <<144, 178, 197>>,
     <<159, 169, 204>>,
     <<166, 180, 129>>,
     <<174, 160, 211>>,
     <<181, 171, 136>>,
     <<196, 162, 143>>,
     <<211, 153, 150>>,
     <<226, 144, 157>>,
     <<241, 135, 164>>}

\* brightness >= threshold, in thousandths
BrightEnough(r, g, b, threshold) ==
    /\ 299 * r + 587 * g + 114 * b >= 1000 * threshold
    /\ <<r, g, b>> \notin RoundsBelow170

\* (mutant) the threshold is 130
status_text_colour_Threshold130(background_hex) ==
    LET hex_code == LStripHash(background_hex)
        r == int16(Slice2(hex_code, 0))
        g == int16(Slice2(hex_code, 2))
        b == int16(Slice2(hex_code, 4))
    IN  IF \E i \in {0, 2, 4} : ~parses16(Slice2(hex_code, i)) THEN White
        ELSE IF BrightEnough(r, g, b, 130) THEN DEFAULT_TEXT_COLOR ELSE White

\* Workflow._status_text_colour
status_text_colour(background_hex) ==
    LET hex_code == LStripHash(background_hex)
        r == int16(Slice2(hex_code, 0))
        g == int16(Slice2(hex_code, 2))
        b == int16(Slice2(hex_code, 4))
    IN  IF \E i \in {0, 2, 4} : ~parses16(Slice2(hex_code, i)) THEN White
        ELSE IF BrightEnough(r, g, b, 170) THEN DEFAULT_TEXT_COLOR ELSE White

\* lines 937-945 of _apply_status_styles: the colours of the badge
status_colours(colour, subtle) ==
    LET colour_hex == IF normalise_colour(colour) = NoColour THEN DEFAULT_STATUS_HEX
                      ELSE normalise_colour(colour)
    IN  IF subtle
        THEN [bg |-> SUBTLE_BACKGROUND_HEX, text_colour |-> DEFAULT_TEXT_COLOR,
              border |-> SUBTLE_BORDER_HEX]
        ELSE [bg |-> colour_hex, text_colour |-> status_text_colour(colour_hex),
              border |-> NoColour]

\* colour tokens: palette names as written in pages, hex strings of three and
\* six digits, the lozenge colours, rgb strings, and tokens that are none of
\* these
ColourTokens ==
    {<<"G", "r", "e", "e", "n">>,
     <<" ", "R", "E", "D", " ">>,
     <<"y", "e", "l", "l", "o", "w">>,
     <<"b", "l", "u", "e">>,
     <<"g", "r", "e", "y">>,
     <<"g", "r", "a", "y">>,
     <<"p", "u", "r", "p", "l", "e">>,
     <<"t", "e", "a", "l">>,
     <<"l", "i", "m", "e">>,
     <<"b", "r", "o", "w", "n">>,
     <<"#", "a", "b", "c">>,
     <<"#", "F", "F", "F">>,
     <<"#", "3", "6", "b", "3", "7", "e">>,
     <<"#", "3", "6", "B", "3", "7", "E">>,
     <<"#", "F", "F", "5", "6", "3", "0">>,
     <<"#", "A", "A", "A", "A", "A", "A">>,
     <<"#", "0", "D", "F", "9", "A", "F">>,
     <<"#", "5", "7", "D", "9", "A", "3">>,
     <<"#", "7", "A", "8", "6", "9", "A">>,
     <<"#", "z", "z", "z", "z", "z", "z">>,
     <<"#", "g", "g", "g">>,
     <<"#", "1", "2">>,
     <<"#", "#", "1", "2", "3", "4", "5">>,
     <<"#", "1", "2", "3", "4", "5", "6", "7", "8">>,
     <<"#", "-", "F", "-", "F", "-", "F">>,
     <<"r", "g", "b", "(", "5", "4", ",", " ", "1", "7", "9", ",", " ", "1", "2", "6", ")">>,
     <<"r", "g", "b", "(", "3", "0", "0", ",", "0", ",", "0", ")">>,
     <<"R", "G", "B", "(", "2", "5", "5", " ", "2", "5", "5", " ", "2", "5", "5", ")">>,
     <<"r", "g", "b", "(", "1", ",", "2", ")">>,
     <<"r", "g", "b", "a", "(", "0", ",", "0", ",", "0", ",", "0", ".", "5", ")">>,
     <<"r", "g", "b", "1", "2", "-", "3", "4", "-", "5", "6", "-", "7", "8">>,
     <<"b", "o", "g", "u", "s">>,
     <<>>,
     <<" ", " ", " ">>,
     <<"g", "r", "e", "e", "n", "i", "s", "h">>,
     <<"3", "6", "B", "3", "7", "E">>}

\* one call of _apply_status_styles
ApplyStatusStyles ==
    /\ ~kCalled
    /\ kCalled' = TRUE
    /\ kStyle' = status_colours(kColour, kSubtle)
    /\ UNCHANGED <<kColour, kSubtle>>
    /\ UNCHANGED <<valVars, menVars, cfgVars, recVars, runVars, emlVars, rndVars, impVars, extVars>>

Green36B37E == <<"#", "3", "6", "B", "3", "7", "E">>

\* C18 (amended): for the palette green background #36B37E the computed
\* status text colour is white: its brightness, 135.583, is below 170.
C18_GreenGetsWhiteText ==
    (kCalled /\ ~kSubtle /\ kStyle.bg = Green36B37E) =>
        /\ kStyle.text_colour = White
        /\ 299 * 54 + 587 * 179 + 114 * 126 = 135583

\* C18 as stated: the text colour on #36B37E is the dark text colour
C18_Original_GreenGetsDarkText ==
    (kCalled /\ ~kSubtle /\ kStyle.bg = Green36B37E) =>
        kStyle.text_colour = DEFAULT_TEXT_COLOR

\* a badge whose colour is the palette name green has been styled
C18_Witness ==
    /\ kCalled
    /\ ~kSubtle
    /\ Lower(Strip(kColour)) = <<"g", "r", "e", "e", "n">>
    /\ kStyle.bg = Green36B37E

IsSixDigitUpperHex(t) ==
    /\ Len(t) = 7
    /\ t[1] = "#"
    /\ \A i \in 2..7 : IsUpperHex(t[i])

\* a '#'-prefixed token with a character that is no hexadecimal digit
HashWithNonHex(t) ==
    /\ StartsWith(Strip(t), <<"#">>)
    /\ \E i \in 2..Len(Strip(t)) : ~IsHex(Strip(t)[i])

\* C19: the background applied to a status badge is a '#' followed by six
\* uppercase hexadecimal digits, and a '#'-prefixed token whose digits are
\* not hexadecimal gets the default gray #7A869A.
C19_BackgroundIsSixDigitHex ==
    kCalled =>
        /\ IsSixDigitUpperHex(kStyle.bg)
        /\ (~kSubtle /\ HashWithNonHex(kColour)) => kStyle.bg = DEFAULT_STATUS_HEX

\* the channel written at characters i and i + 1 of a six-digit hex colour
Channel(hex, i) == 16 * HexValue(hex[i]) + HexValue(hex[i + 1])

\* C25: on a six-digit background the text colour of a badge that is not
\* subtle is the dark #172B4D exactly when 299 R + 587 G + 114 B >= 170000
\* and white otherwise; a subtle badge has the fixed subtle background, dark
\* text and border.
C25_DarkTextIffBrightEnough ==
    kCalled =>
        /\ (~kSubtle /\ IsSixDigitUpperHex(kStyle.bg)) =>
              kStyle.text_colour =
                  IF 299 * Channel(kStyle.bg, 2) + 587 * Channel(kStyle.bg, 4)
                         + 114 * Channel(kStyle.bg, 6) >= 170000
                  THEN DEFAULT_TEXT_COLOR
                  ELSE White
        /\ kSubtle =>
              kStyle = [bg |-> SUBTLE_BACKGROUND_HEX, text_colour |-> DEFAULT_TEXT_COLOR,
                        border |-> SUBTLE_BORDER_HEX]

(***************************************************************************)
(* Comment text: Workflow._comment_text, Workflow._extract_adf_text and    *)
(* DefaultIssueContentProvider._extract_comment_body, ._extract_adf_text   *)
(***************************************************************************)
NL == "\n"

\* str.strip(): blanks and line breaks are removed at both ends
RECURSIVE PyLStrip(_)
PyLStrip(t) == IF t # <<>> /\ Head(t) \in {" ", NL} THEN PyLStrip(Tail(t)) ELSE t

RECURSIVE PyRStrip(_)
PyRStrip(t) == IF t # <<>> /\ Last(t) \in {" ", NL} THEN PyRStrip(Front(t)) ELSE t

PyStrip(t) == PyRStrip(PyLStrip(t))

\* a node of the document tree: a JSON object with the keys type, text and
\* content, each of which may hold any JSON value (JNone: absent, None or empty)
AdfNode(type, text, content) ==
    [t |-> "dict", type |-> type, text |-> text, content |-> content]

AdfText(text) == AdfNode("text", JStr(text), JNone)

HardBreak == AdfNode("hardBreak", JNone, JNone)

\* what a walk has appended to `parts`, or that it raised
Parts(text) == [raised |-> FALSE, parts |-> text]

WalkRaised == [raised |-> TRUE, parts |-> <<>>]

\* for child in elem.get("content", []) or []: a list gives its entries, a
\* string its characters, a number cannot be iterated (TypeError)
Iterable(content) == content.t # "num"

Children(content) ==
    CASE content.t = "list" -> content.items
      [] content.t = "str" -> [i \in 1..Len(content.text) |-> JStr(<<content.text[i]>>)]
      [] OTHER -> <<>>

BlockTypes == {"paragraph", "heading", "listItem"}

\* walk of Workflow._extract_adf_text (workflow.py 661-677)
RECURSIVE workflow_walk(_)
workflow_walk(elem) ==
    LET each(children) ==
            LET first == workflow_walk(Head(children))
                rest == workflow_walk([t |-> "list", items |-> Tail(children)])
            IN  IF first.raised \/ rest.raised THEN WalkRaised
                ELSE Parts(first.parts \o rest.parts)
    IN  CASE elem.t = "dict" ->
                IF elem.type = "text"
                THEN CASE elem.text.t = "none" -> Parts(<<>>)
                       [] elem.text.t = "str" -> Parts(elem.text.text)
                       \* a number is appended and "".join(parts) raises
                       [] OTHER -> WalkRaised
                ELSE IF elem.type = "hardBreak" THEN Parts(<<NL>>)
                ELSE IF ~Iterable(elem.content) THEN WalkRaised
                ELSE LET inner == workflow_walk(JList(Children(elem.content)))
                     IN  IF inner.raised THEN WalkRaised
                         ELSE IF elem.type \in BlockTypes
                         THEN Parts(Append(inner.parts, NL))
                         ELSE inner
          [] elem.t = "list" ->
                IF elem.items = <<>> THEN Parts(<<>>) ELSE each(elem.items)
          [] OTHER -> Parts(<<>>)

\* walk of DefaultIssueContentProvider._extract_adf_text (issue_content.py
\* 181-195): there is no branch for hardBreak
RECURSIVE provider_walk(_)
provider_walk(element) ==
    LET each(children) ==
            LET first == provider_walk(Head(children))
                rest == provider_walk([t |-> "list", items |-> Tail(children)])
            IN  IF first.raised \/ rest.raised THEN WalkRaised
                ELSE Parts(first.parts \o rest.parts)
    IN  CASE element.t = "dict" ->
                IF element.type = "text"
                THEN CASE element.text.t = "none" -> Parts(<<>>)
                       [] element.text.t = "str" -> Parts(element.text.text)
                       [] OTHER -> WalkRaised
                ELSE IF ~Iterable(element.content) THEN WalkRaised
                ELSE LET inner == provider_walk(JList(Children(element.content)))
                     IN  IF inner.raised THEN WalkRaised
                         ELSE IF element.type \in BlockTypes
                         THEN Parts(Append(inner.parts, NL))
                         ELSE inner
          [] element.t = "list" ->
                IF element.items = <<>> THEN Parts(<<>>) ELSE each(element.items)
          [] OTHER -> Parts(<<>>)

\* the outcome of a call: the text returned, or that an exception left it
NotCalled == [called |-> FALSE, raised |-> FALSE, parts |-> <<>>, text |-> <<>>]

Returned(parts, text) == [called |-> TRUE, raised |-> FALSE, parts |-> parts, text |-> text]

Raised == [called |-> TRUE, raised |-> TRUE, parts |-> <<>>, text |-> <<>>]

\* Workflow._extract_adf_text: "".join(parts).strip()
workflow_extract_adf_text(node) ==
    LET w == workflow_walk(node)
    IN  IF w.raised THEN Raised ELSE Returned(w.parts, PyStrip(w.parts))

\* DefaultIssueContentProvider._extract_adf_text:
\* self._clean_html(joined) if joined else ""
provider_extract_adf_text(node) ==
    LET w == provider_walk(node)
        joined == PyStrip(w.parts)
    IN  IF w.raised THEN Raised
        ELSE Returned(w.parts, IF joined # <<>> THEN clean_html(joined, EmptyCache) ELSE NoText)

\* str(body) of an object: its Python literal, of which the braces and the
\* first key are kept
py_str(value) == <<"{", "'", "t", "y", "p", "e", "'", "}">>

\* Workflow._comment_text
comment_text(comment) ==
    LET rendered == comment.renderedBody
        body == comment.body
    IN  IF rendered.t = "str" /\ rendered.text # NoText
        THEN Returned(<<>>, clean_text(rendered.text))
        ELSE IF body.t = "str" THEN Returned(<<>>, clean_text(body.text))
        ELSE IF body.t = "dict"
        THEN LET tree == workflow_extract_adf_text(body)
             IN  IF tree.raised THEN Raised
                 ELSE Returned(tree.parts, clean_text(tree.text))
        ELSE Returned(<<>>, NoText)

\* DefaultIssueContentProvider._extract_comment_body
extract_comment_body(comment) ==
    LET body == comment.body
        rendered_body == comment.renderedBody
        fromStr == IF body.t = "str" THEN clean_html(body.text, EmptyCache) ELSE NoText
        fromTree == IF body.t = "dict" THEN provider_extract_adf_text(body)
                    ELSE Returned(<<>>, NoText)
        fromRendered == IF rendered_body.t = "str"
                        THEN clean_html(rendered_body.text, EmptyCache)
                        ELSE NoText
    IN  IF fromStr # NoText THEN Returned(<<>>, fromStr)
        ELSE IF fromTree.raised THEN Raised
        ELSE IF fromTree.text # NoText THEN fromTree
        ELSE IF fromRendered # NoText THEN Returned(fromTree.parts, fromRendered)
        ELSE Returned(fromTree.parts,
                      CASE body.t = "dict" -> clean_html(py_str(body), EmptyCache)
                        [] body.t = "str" -> clean_html(body.text, EmptyCache)
                        [] OTHER -> NoText)

MaxChildren == 2

\* the children of a block: text, blank text, empty text, a line break, a node
\* of a type the walk does not know, a text node whose text is a number, and
\* a child that is no object at all
AdfLeaves ==
    {AdfText(<<"a">>), AdfText(<<" ">>), AdfText(NoText), HardBreak,
     AdfNode("mention", JNone, JNone), AdfNode("text", JNum, JNone), JNum}

AdfBlocks ==
    {AdfNode(type, JNone, JList(cs)) :
        type \in {"paragraph", "listItem", "panel"},
        cs \in SeqsUpTo(AdfLeaves, MaxChildren)}
    \cup {AdfNode("paragraph", JNone, JNum),
          AdfNode("paragraph", JNone, JStr(<<"a", "b">>))}

AdfDocs ==
    {AdfNode("doc", JNone, JList(<<AdfNode("paragraph", JNone, JList(cs)),
                                    AdfNode("heading", JNone, JList(<<AdfText(<<"b">>)>>))>>)) :
        cs \in SeqsUpTo(AdfLeaves, MaxChildren)}

CommentBodies == {JNone, JStr(<<"s">>), JStr(<<" ">>)} \cup AdfBlocks \cup AdfDocs

RenderedBodies == {JNone, JStr(<<"r">>), JStr(<<" ">>)}

\* Workflow._comment_text(comment)
CommentText ==
    /\ ~aCommentText.called
    /\ aCommentText' = [comment_text(aComment) EXCEPT !.parts = <<>>]
    /\ UNCHANGED <<aComment, aCommentBody, aWorkflowAdf, aProviderAdf>>
    /\ UNCHANGED AllButAdf

\* DefaultIssueContentProvider._extract_comment_body(comment)
ExtractCommentBody ==
    /\ ~aCommentBody.called
    /\ aCommentBody' = [extract_comment_body(aComment) EXCEPT !.parts = <<>>]
    /\ UNCHANGED <<aComment, aCommentText, aWorkflowAdf, aProviderAdf>>
    /\ UNCHANGED AllButAdf

\* Workflow._extract_adf_text(body)
WorkflowExtractAdfText ==
    /\ ~aWorkflowAdf.called
    /\ aComment.body.t = "dict"
    /\ aWorkflowAdf' = workflow_extract_adf_text(aComment.body)
    /\ UNCHANGED <<aComment, aCommentText, aCommentBody, aProviderAdf>>
    /\ UNCHANGED AllButAdf

\* DefaultIssueContentProvider._extract_adf_text(body)
ProviderExtractAdfText ==
    /\ ~aProviderAdf.called
    /\ aComment.body.t = "dict"
    /\ aProviderAdf' = provider_extract_adf_text(aComment.body)
    /\ UNCHANGED <<aComment, aCommentText, aCommentBody, aWorkflowAdf>>
    /\ UNCHANGED AllButAdf

AdfIdle ==
    /\ aComment = <<>>
    /\ aCommentText = NotCalled
    /\ aCommentBody = NotCalled
    /\ aWorkflowAdf = NotCalled
    /\ aProviderAdf = NotCalled

(***************************************************************************)
(* Claims about the comment text                                           *)
(***************************************************************************)
\* the first of the two texts that is not empty, else the empty text
Preferred(fromRendered, fromTree) ==
    IF fromRendered # NoText THEN fromRendered ELSE fromTree

BothForms ==
    /\ aComment.body.t = "dict"
    /\ aComment.renderedBody.t = "str"

\* C22: for a comment with a node-tree body and a renderedBody string, both
\* Workflow._comment_text and DefaultIssueContentProvider._extract_comment_body
\* return the text of renderedBody if that is not empty, otherwise the text of
\* the node-tree traversal, otherwise the empty text.
C22_RenderedBodyPreferred ==
    (/\ BothForms
     /\ aCommentText.called /\ aCommentBody.called
     /\ aWorkflowAdf.called /\ aProviderAdf.called
     /\ ~aWorkflowAdf.raised /\ ~aProviderAdf.raised) =>
        /\ aCommentText.text =
              Preferred(clean_text(aComment.renderedBody.text), aWorkflowAdf.text)
        /\ aCommentBody.text =
              Preferred(clean_html(aComment.renderedBody.text, EmptyCache), aProviderAdf.text)

\* C23: the node-tree text extraction raises on no tree, and both walks, of
\* the workflow and of the issue-content provider, emit the same sequence for
\* every tree.
C23_WalksTotalAndEqual ==
    (aWorkflowAdf.called /\ aProviderAdf.called) =>
        /\ ~aWorkflowAdf.raised
        /\ ~aProviderAdf.raised
        /\ aWorkflowAdf.parts = aProviderAdf.parts

(***************************************************************************)
(* Workflow._extract_field_values and the product and customer names       *)
(***************************************************************************)
\* the value of a Jira field as an object: the keys value, name, displayName,
\* title and children, each holding any JSON value (JNone: absent or None)
FieldObject(value, name, displayName, title, children) ==
    [t |-> "dict", value |-> value, name |-> name, displayName |-> displayName,
     title |-> title, children |-> children]

\* for key in ("value", "name", "displayName", "title")
OwnKeys(obj) == <<obj.value, obj.name, obj.displayName, obj.title>>

\* isinstance(field_val, str) and field_val.strip()
IsNonBlankStr(field_val) == field_val.t = "str" /\ PyStrip(field_val.text) # <<>>

\* Workflow._extract_field_values
RECURSIVE extract_field_values(_)
extract_field_values(value) ==
    LET RECURSIVE own(_)
        own(keys) ==
            IF keys = <<>> THEN <<>>
            ELSE (IF IsNonBlankStr(Head(keys)) THEN <<PyStrip(Head(keys).text)>> ELSE <<>>)
                 \o own(Tail(keys))
        RECURSIVE each(_)
        each(items) ==
            IF items = <<>> THEN <<>>
            ELSE extract_field_values(Head(items)) \o each(Tail(items))
    IN  CASE value.t = "none" -> <<>>
          [] value.t = "str" ->
                IF PyStrip(value.text) # <<>> THEN <<PyStrip(value.text)>> ELSE <<>>
          [] value.t = "dict" ->
                own(OwnKeys(value))
                \o (IF value.children.t = "list" THEN each(value.children.items) ELSE <<>>)
          [] value.t = "list" -> SelectSeq(each(value.items), LAMBDA v : v # <<>>)
          [] OTHER -> <<>>

Unknown == <<"U", "n", "k", "n", "o", "w", "n">>

\* ", ".join(values) on texts
RECURSIVE JoinComma(_)
JoinComma(values) ==
    IF values = <<>> THEN <<>>
    ELSE IF Len(values) = 1 THEN Head(values)
    ELSE Head(values) \o <<",", " ">> \o JoinComma(Tail(values))

\* Workflow._product_names, on fields.customfield_10719
product_names(issue) ==
    LET values == extract_field_values(issue.customfield_10719)
    IN  IF values # <<>> THEN JoinComma(values) ELSE Unknown

\* Workflow._customer_names, on fields.customfield_23301
customer_names(issue) ==
    LET values == extract_field_values(issue.customfield_23301)
    IN  IF values # <<>> THEN JoinComma(values) ELSE Unknown

MaxItems == 2

FieldScalars ==
    {JNone, JStr(<<>>), JStr(<<" ">>), JStr(<<"A">>), JStr(<<" ", "B", " ">>), JNum}

FieldLeafObjects ==
    {FieldObject(value, name, displayName, title, JNone) :
        value \in {JNone, JStr(<<"A">>), JStr(<<" ">>)},
        name \in {JNone, JStr(<<"B">>)},
        displayName \in {JNone, JStr(<<"D">>)},
        title \in {JNone, JNum}}

FieldChildren ==
    {JStr(<<"x">>), JList(<<>>), JList(<<JStr(<<"C">>)>>),
     JList(<<FieldObject(JNone, JStr(<<"B">>), JNone, JNone, JNone), JStr(<<"C">>)>>)}

FieldParents ==
    {FieldObject(value, name, JNone, JNone, children) :
        value \in {JNone, JStr(<<"A">>)},
        name \in {JNone, JStr(<<"B">>)},
        children \in FieldChildren}

FieldItems ==
    {JNone, JStr(<<" ">>), JStr(<<"A">>), JNum,
     FieldObject(JNone, JStr(<<"B">>), JNone, JNone, JList(<<JStr(<<"C">>)>>))}

FieldValues ==
    FieldScalars \cup FieldLeafObjects \cup FieldParents
    \cup {JList(items) : items \in SeqsUpTo(FieldItems, MaxItems)}

CustomerValues == {JNone, JStr(<<"C">>), JList(<<JStr(<<"A">>), JStr(<<"C">>)>>)}

\* Workflow._extract_field_values(fields.customfield_10719)
ExtractFieldValues ==
    /\ ~fCalled
    /\ fCalled' = TRUE
    /\ fValues' = extract_field_values(fIssue.customfield_10719)
    /\ UNCHANGED <<fIssue, fProduct, fCustomer>>
    /\ UNCHANGED AllButField

\* Workflow._product_names(issue)
ProductNames ==
    /\ fProduct = NoText
    /\ fProduct' = product_names(fIssue)
    /\ UNCHANGED <<fIssue, fCalled, fValues, fCustomer>>
    /\ UNCHANGED AllButField

\* Workflow._customer_names(issue)
CustomerNames ==
    /\ fCustomer = NoText
    /\ fCustomer' = customer_names(fIssue)
    /\ UNCHANGED <<fIssue, fCalled, fValues, fProduct>>
    /\ UNCHANGED AllButField

FieldIdle ==
    /\ fIssue = <<>>
    /\ fCalled = FALSE
    /\ fValues = <<>>
    /\ fProduct = NoText
    /\ fCustomer = NoText

(***************************************************************************)
(* Claims about the field values                                           *)
(***************************************************************************)
\* the first non-empty string among value, name, displayName and title
RECURSIVE FirstOwn(_)
FirstOwn(keys) ==
    IF keys = <<>> THEN <<>>
    ELSE IF IsNonBlankStr(Head(keys)) THEN <<PyStrip(Head(keys).text)>>
    ELSE FirstOwn(Tail(keys))

RECURSIVE FirstOwnThenChildren(_)
FirstOwnThenChildren(value) ==
    LET RECURSIVE each(_)
        each(items) ==
            IF items = <<>> THEN <<>>
            ELSE FirstOwnThenChildren(Head(items)) \o each(Tail(items))
    IN  CASE value.t = "str" ->
                IF PyStrip(value.text) # <<>> THEN <<PyStrip(value.text)>> ELSE <<>>
          [] value.t = "dict" ->
                FirstOwn(OwnKeys(value))
                \o (IF value.children.t = "list" THEN each(value.children.items) ELSE <<>>)
          [] value.t = "list" -> each(value.items)
          [] OTHER -> <<>>

\* C24: the field-value extractor returns, for an object, at most one own
\* string (the first non-empty among value, name, displayName, title) followed
\* by the values of its children list; for a string its trimmed value if not
\* empty; for a list its elements' results in order; and nothing for an absent
\* or empty value, for which the product and customer names are 'Unknown'.
C24_FirstOwnStringThenChildren ==
    /\ fCalled => fValues = FirstOwnThenChildren(fIssue.customfield_10719)
    /\ (fProduct # NoText /\ FirstOwnThenChildren(fIssue.customfield_10719) = <<>>) =>
          fProduct = Unknown
    /\ (fCustomer # NoText /\ FirstOwnThenChildren(fIssue.customfield_23301) = <<>>) =>
          fCustomer = Unknown

(***************************************************************************)
(* Workflow._normalize_text and the files the workflow writes              *)
(***************************************************************************)
CR == "\r"

\* code points outside ASCII are written by their number
NBSP == "U+00A0"
ZWSP == "U+200B"
AcuteAccent == "U+0301"     \* combining
EAcute == "U+00E9"
ACircumflex == "U+00E2"     \* first code point of the dash in workflow.py line 510
LigatureFi == "U+FB01"
CircledOne == "U+2460"

AsciiChars == {"a", "e", "f", "i", "1", " ", NL, CR}

PersistChars == AsciiChars \cup {NBSP, ZWSP, AcuteAccent, EAcute, ACircumflex, LigatureFi, CircledOne}

\* the compatibility decomposition of one code point
Decomposed(c) ==
    CASE c = NBSP -> <<" ">>
      [] c = EAcute -> <<"e", AcuteAccent>>
      [] c = ACircumflex -> <<"a", "U+0302">>
      [] c = LigatureFi -> <<"f", "i">>
      [] c = CircledOne -> <<"1">>
      [] OTHER -> <<c>>

RECURSIVE DecomposeAll(_)
DecomposeAll(t) == IF t = <<>> THEN <<>> ELSE Decomposed(Head(t)) \o DecomposeAll(Tail(t))

\* the canonical composition: a letter and the combining mark after it
RECURSIVE ComposeAll(_)
ComposeAll(t) ==
    IF Len(t) < 2 THEN t
    ELSE IF t[1] = "e" /\ t[2] = AcuteAccent THEN <<EAcute>> \o ComposeAll(Tail(Tail(t)))
    ELSE IF t[1] = "a" /\ t[2] = "U+0302" THEN <<ACircumflex>> \o ComposeAll(Tail(Tail(t)))
    ELSE <<t[1]>> \o ComposeAll(Tail(t))

\* unicodedata.normalize("NFKC", text)
NFKC(text) == ComposeAll(DecomposeAll(text))

\* .replace("\r\n", "\n").replace("\r", "\n")
RECURSIVE ReplaceCR(_)
ReplaceCR(t) ==
    IF t = <<>> THEN <<>>
    ELSE IF Len(t) >= 2 /\ t[1] = CR /\ t[2] = NL THEN <<NL>> \o ReplaceCR(Tail(Tail(t)))
    ELSE IF t[1] = CR THEN <<NL>> \o ReplaceCR(Tail(t))
    ELSE <<t[1]>> \o ReplaceCR(Tail(t))

\* Workflow._normalize_text
normalize_text(text) ==
    LET normalized == ReplaceCR(NFKC(text))
        spaced == [i \in 1..Len(normalized) |->
                      IF normalized[i] = NBSP THEN " " ELSE normalized[i]]
        joined == SelectSeq(spaced, LAMBDA c : c # ZWSP)
    IN  SelectSeq(joined, LAMBDA c : c \in AsciiChars)

NotWritten == [written |-> FALSE, text |-> <<>>]

Written(text) == [written |-> TRUE, text |-> text]

\* Workflow._persist_prompt(issue_key, prompt_text); `failed` stands for the
\* OSError of mkdir or write_text
PersistPrompt ==
    /\ ~pPrompt.written
    /\ pKey # NoText
    /\ \E failed \in BOOLEAN :
          pPrompt' = IF failed THEN pPrompt ELSE Written(pText)
    /\ UNCHANGED <<pText, pKey, pResponse, pBody>>
    /\ UNCHANGED AllButPersist

\* Workflow._persist_llm_response(issue_key, response_text)
PersistLlmResponse ==
    /\ ~pResponse.written
    /\ pKey # NoText
    /\ \E failed \in BOOLEAN :
          pResponse' = IF failed THEN pResponse ELSE Written(normalize_text(pText))
    /\ UNCHANGED <<pText, pKey, pPrompt, pBody>>
    /\ UNCHANGED AllButPersist

\* Workflow._persist_confluence_body(body)
PersistConfluenceBody ==
    /\ ~pBody.written
    /\ \E failed \in BOOLEAN :
          pBody' = IF failed THEN pBody ELSE Written(normalize_text(pText))
    /\ UNCHANGED <<pText, pKey, pPrompt, pResponse>>
    /\ UNCHANGED AllButPersist

MaxText == 2

PersistTexts == SeqsUpTo(PersistChars, MaxText)

PersistKeys == {NoText, <<"K">>}

PersistIdle ==
    /\ pText = <<>>
    /\ pKey = NoText
    /\ pPrompt = NotWritten
    /\ pResponse = NotWritten
    /\ pBody = NotWritten

(***************************************************************************)
(* Claims about the persisted files                                        *)
(***************************************************************************)
AsciiNoCR(text) == \A i \in 1..Len(text) : text[i] \in AsciiChars \ {CR}

\* C27: the prompt, the completion response and the page body are normalized
\* before they are written, so every file the workflow has written holds only
\* ASCII code points and no carriage return; the normalizer is idempotent.
C27_PersistedFilesNormalized ==
    /\ \A file \in {pPrompt, pResponse, pBody} :
          file.written => file.text = normalize_text(pText) /\ AsciiNoCR(file.text)
    /\ normalize_text(normalize_text(pText)) = normalize_text(pText)

(***************************************************************************)
(* JiraClient.search_issues against a server that holds a list of issues   *)
(***************************************************************************)
max_results == 100

Smaller(a, b) == IF a <= b THEN a ELSE b

\* the server's answer to GET /rest/api/2/search: the issues from startAt on,
\* at most maxResults of them and at most as many as the server's own page
\* size allows, and the size of the whole list as total
SearchResponse(server, pageSize, startAt, maxResults) ==
    [issues |-> SubSeq(server, startAt + 1,
                       Smaller(Len(server), startAt + Smaller(maxResults, pageSize))),
     total |-> Len(server)]

\* (mutant) start_at advances by the page size asked for, not the one received
SearchPage_AdvanceByMaxResults ==
    /\ jPc = "loop"
    /\ LET data == SearchResponse(jServer, jPageSize, jStartAt, max_results)
           batch == data.issues
           start_at == jStartAt + max_results
       IN  /\ jRequests' = Append(jRequests, [startAt |-> jStartAt, received |-> Len(jIssues)])
           /\ jIssues' = jIssues \o batch
           /\ jBatch' = Len(batch)
           /\ jTotal' = data.total
           /\ jStartAt' = start_at
           /\ jPc' = IF start_at >= data.total \/ batch = <<>> THEN "returned" ELSE "loop"
    /\ UNCHANGED <<jServer, jPageSize>>
    /\ UNCHANGED AllButSearch

\* JiraClient.search_issues: one iteration of the while loop, lines 40-56
SearchPage ==
    /\ jPc = "loop"
    /\ LET data == SearchResponse(jServer, jPageSize, jStartAt, max_results)
           batch == data.issues
           start_at == jStartAt + Len(batch)
       IN  /\ jRequests' = Append(jRequests, [startAt |-> jStartAt, received |-> Len(jIssues)])
           /\ jIssues' = jIssues \o batch
           /\ jBatch' = Len(batch)
           /\ jTotal' = data.total
           /\ jStartAt' = start_at
           /\ jPc' = IF start_at >= data.total \/ batch = <<>> THEN "returned" ELSE "loop"
    /\ UNCHANGED <<jServer, jPageSize>>
    /\ UNCHANGED AllButSearch

MaxServerIssues == 4

\* lists shorter than a page, and lists of one page, one page and one issue,
\* and more than two pages
ServerSizes == (0..MaxServerIssues) \cup {max_results, max_results + 1, 2 * max_results + 5}

\* the server's own limit on a page: below, at and above maxResults
ServerPageSizes == {1, 2, max_results, max_results + 50}

SearchIdle ==
    /\ jServer = <<>>
    /\ jPageSize = 0
    /\ jStartAt = 0
    /\ jIssues = <<>>
    /\ jBatch = 0
    /\ jTotal = 0
    /\ jRequests = <<>>
    /\ jPc = "idle"

(***************************************************************************)
(* Claims about the issue search                                           *)
(***************************************************************************)
\* what was received is the head of the server's list, in its order; every
\* request asked for the issues after the ones already received; the loop has
\* ended exactly when a page came back empty or the total was reached; and
\* what is returned is the whole list
SearchInOrder ==
    /\ Len(jIssues) <= Len(jServer)
    /\ jIssues = SubSeq(jServer, 1, Len(jIssues))
    /\ \A k \in 1..Len(jRequests) : jRequests[k].startAt = jRequests[k].received
    /\ jRequests # <<>> =>
          (jPc = "returned" <=> (jBatch = 0 \/ Len(jIssues) >= jTotal))
    /\ jPc = "returned" => jIssues = jServer

\* C29: against a server that holds N issues and answers each request with
\* the slice from startAt on and total = N, search_issues terminates and
\* returns exactly the N issues, each once and in the server's order; each
\* request's startAt is the number of issues received so far, and the loop
\* stops as soon as a page is empty or the number received reaches the total.
C29_SearchReturnsAllIssues == []SearchInOrder /\ <>(jPc = "returned")

\* a search of more than two pages has returned
C29_Witness ==
    /\ jPc = "returned"
    /\ Len(jRequests) >= 3
    /\ Len(jServer) > 2 * max_results
    /\ jIssues = jServer

(***************************************************************************)
(* ConfluenceClient.create_page against a server that holds pages          *)
(***************************************************************************)
\* a page of the server; ancestors is the chain of its parents, nearest last
Page(id, space, title, ancestors, number) ==
    [id |-> id, space |-> space, title |-> title, ancestors |-> ancestors,
     version |-> number, body |-> "old"]

NoPage == [id |-> 0, space |-> "", title |-> "", ancestors |-> <<>>, version |-> 0, body |-> ""]

\* str(parent_page_id): the decimal digits of the number the caller gives;
\* the server writes ids as strings of digits, which str() leaves as they are
RECURSIVE StrOfInt(_)
StrOfInt(n) ==
    LET digit == <<"0", "1", "2", "3", "4", "5", "6", "7", "8", "9">>[(n % 10) + 1]
    IN  IF n < 10 THEN <<digit>> ELSE Append(StrOfInt(n \div 10), digit)

\* the answer to GET /rest/api/content with spaceKey and title: the pages of
\* that space with that title, in the server's order
TitleResults(pages, space_key, title) ==
    SelectSeq(pages, LAMBDA page : page.space = space_key /\ page.title = title)

UnderParent(page, parent_page_id) ==
    \E k \in 1..Len(page.ancestors) : page.ancestors[k] = StrOfInt(parent_page_id)

\* the page as ConfluenceClient._update_page submits it with PUT
update_page(page, parent_page_id, body_storage) ==
    [page EXCEPT !.ancestors = <<StrOfInt(parent_page_id)>>,
                 !.version = page.version + 1,
                 !.body = body_storage]

\* ConfluenceClient._fetch_page
FetchPage ==
    /\ sPc = "fetch"
    /\ \E ok \in BOOLEAN :
          IF ~ok THEN sPc' = "failed" /\ UNCHANGED sExisting
          ELSE LET results == TitleResults(sPages, sArgs.space_key, sArgs.title)
                   under == SelectSeq(results, LAMBDA page : UnderParent(page, sArgs.parent_page_id))
               IN  /\ sExisting' = IF under # <<>> THEN Head(under)
                                   ELSE IF results # <<>> THEN Head(results)
                                   ELSE NoPage
                   /\ sPc' = "fetched"
    /\ UNCHANGED <<sPages, sBefore, sArgs>>
    /\ UNCHANGED AllButPage

\* ConfluenceClient._update_page, for `if existing`; the server stores what
\* was submitted
UpdatePage ==
    /\ sPc = "fetched"
    /\ sExisting # NoPage
    /\ \E ok \in BOOLEAN :
          IF ~ok THEN sPc' = "failed" /\ UNCHANGED sPages
          ELSE /\ sPages' = [k \in 1..Len(sPages) |->
                                IF sPages[k].id = sExisting.id
                                THEN update_page(sExisting, sArgs.parent_page_id, sArgs.body_storage)
                                ELSE sPages[k]]
               /\ sPc' = "updated"
    /\ UNCHANGED <<sBefore, sArgs, sExisting>>
    /\ UNCHANGED AllButPage

\* ConfluenceClient._create_page, when nothing was found
CreateNewPage ==
    /\ sPc = "fetched"
    /\ sExisting = NoPage
    /\ \E ok \in BOOLEAN :
          IF ~ok THEN sPc' = "failed" /\ UNCHANGED sPages
          ELSE /\ sPages' = Append(sPages,
                               [id |-> Len(sPages) + 1, space |-> sArgs.space_key,
                                title |-> sArgs.title,
                                ancestors |-> <<StrOfInt(sArgs.parent_page_id)>>,
                                version |-> 1, body |-> sArgs.body_storage])
               /\ sPc' = "created"
    /\ UNCHANGED <<sBefore, sArgs, sExisting>>
    /\ UNCHANGED AllButPage

MaxPages == 2

PageSpaces == {"S", "Z"}

PageTitles == {"T", "X"}

\* no parent, the parent 17, another parent, and the parent 17 further up
PageAncestors == {<<>>, <<<<"1", "7">>>>, <<<<"8">>>>, <<<<"1", "7">>, <<"8">>>>}

PageVersions == {1, 3}

\* a title is used once in a space
ServerPages ==
    {pages \in UNION {[1..n -> [space : PageSpaces, title : PageTitles,
                                ancestors : PageAncestors, number : PageVersions]] :
                         n \in 0..MaxPages} :
        \A a, b \in 1..Len(pages) :
            (pages[a].space = pages[b].space /\ pages[a].title = pages[b].title) => a = b}

PageIdle ==
    /\ sPages = <<>>
    /\ sBefore = <<>>
    /\ sArgs = <<>>
    /\ sExisting = NoPage
    /\ sPc = "idle"

(***************************************************************************)
(* Claims about the page publication                                       *)
(***************************************************************************)
Matches(page) ==
    /\ page.title = sArgs.title
    /\ page.space = sArgs.space_key
    /\ UnderParent(page, sArgs.parent_page_id)

\* C30: create_page overwrites an existing page only if that page has the
\* given title in the given space and the given parent among its ancestors,
\* and then submits its version number plus one; when there is no such page
\* it creates a new page and changes no existing one.
C30_OverwritesOnlyUnderParent ==
    sPc \in {"updated", "created"} =>
        /\ \A k \in 1..Len(sBefore) :
              sPages[k] # sBefore[k] =>
                  /\ Matches(sBefore[k])
                  /\ sPages[k].version = sBefore[k].version + 1
        /\ (~\E k \in 1..Len(sBefore) : Matches(sBefore[k])) =>
              /\ sPc = "created"
              /\ Len(sPages) = Len(sBefore) + 1
              /\ SubSeq(sPages, 1, Len(sBefore)) = sBefore

RenderIdle == rdArgs = <<>> /\ rdTimes = <<>> /\ rdOut = <<>>

ImpedimentIdle == iIssue = <<>> /\ iCalled = FALSE /\ iResult = FALSE

ColourIdle == kColour = <<>> /\ kSubtle = FALSE /\ kCalled = FALSE /\ kStyle = <<>>

ExtIdle == AdfIdle /\ FieldIdle /\ PersistIdle /\ SearchIdle /\ PageIdle

FnIdle == RenderIdle /\ ImpedimentIdle /\ ColourIdle /\ ExtIdle

(***************************************************************************)
(* Specifications                                                          *)
(***************************************************************************)
InitValidator ==
    /\ vInput \in SeqsUpTo(ValEvents, MaxEvents)
    /\ vPos = 1
    /\ stack = <<>>
    /\ errors = <<>>
    /\ vClosed = FALSE
    /\ MentionIdle
    /\ ConfigDefault
    /\ RecentIdle
    /\ RunIdle
    /\ EmailIdle
    /\ FnIdle

NextValidator == ValFeed \/ ValClose

SpecValidator == InitValidator /\ [][NextValidator]_vars

InitMention ==
    /\ MentionIdle /\ ValidatorIdle /\ ConfigDefault /\ RecentIdle /\ RunIdle
    /\ EmailIdle /\ FnIdle

NextMention == BuildIssueTextCache \/ BuildIssueTextExtract \/ WorkflowCleanText

SpecMention == InitMention /\ [][NextMention]_vars

InitRecent ==
    /\ cComments \in SeqsUpTo(TimedComments, MaxComments)
    /\ cNow = NoDt
    /\ comment_lookback_hours \in LookbackHours
    /\ cPos = 1
    /\ cRecent = <<>>
    /\ cReturned = FALSE
    /\ cSkipped = {}
    /\ xPos = 1
    /\ xFormatted = <<>>
    /\ ignoreFrom \in IgnoreConfigs
    /\ validate_html = TRUE
    /\ RunIdle
    /\ ValidatorIdle
    /\ MentionIdle
    /\ EmailIdle
    /\ FnIdle

NextRecent == CollectStart \/ CollectComment \/ CollectReturn \/ ExtractComment

SpecRecent == InitRecent /\ [][NextRecent]_vars

InitRun ==
    /\ rMode \in {"run", "placeholder"}
    /\ rLimit \in Limits
    /\ rFound \in RunIssueLists
    /\ rIssues = <<>>
    /\ rIdx = 1
    /\ rNow = NoDt
    /\ rClocks = <<>>
    /\ rOutputs = <<>>
    /\ rTrace = <<>>
    /\ rBody = <<>>
    /\ rCreatePage = <<>>
    /\ rPc = "start"
    /\ rError = ""
    /\ ignoreFrom \in RunIgnoreConfigs
    /\ comment_lookback_hours = 24
    /\ validate_html = TRUE
    /\ ValidatorIdle
    /\ MentionIdle
    /\ RecentIdle
    /\ EmailIdle
    /\ FnIdle

NextRun ==
    \/ CollectIssues
    \/ CollectIssuesRaises
    \/ HydrateRaises
    \/ RoundNoRecent
    \/ RoundLlm
    \/ RoundLlmRaises
    \/ RoundPlaceholder
    \/ BuildBody
    \/ ValidateBody
    \/ PublishPage
    \/ PublishRaises
    \/ SendEmailIfEnabled

SpecRun == InitRun /\ [][NextRun]_vars

InitEmail ==
    /\ eInput \in EmailInputs
    /\ eCandidate = eInput
    /\ ePass = 1
    /\ eStage = "call"
    /\ eSoup = <<>>
    /\ eOut1 = <<>>
    /\ eOut = <<>>
    /\ eError = ""
    /\ ValidatorIdle
    /\ MentionIdle
    /\ ConfigDefault
    /\ RecentIdle
    /\ RunIdle
    /\ FnIdle

NextEmail ==
    \/ EnhanceEmpty
    \/ EnhanceParse
    \/ MaterializeMacros
    \/ MaterializeRaises
    \/ NoMacroFound
    \/ StyleStatusMacros
    \/ StyleInfoMacros
    \/ StylePanelMacros
    \/ StripAndReturn
    \/ EnhanceOutput

SpecEmail == InitEmail /\ [][NextEmail]_vars

InitRender ==
    /\ \E settings \in RenderSettings, issue_blocks \in RenderBlockLists :
          rdArgs = [label_status_map |-> settings.label_status_map,
                    filter_id |-> settings.filter_id,
                    filter_name |-> settings.filter_name,
                    total_issues |-> Len(issue_blocks),
                    issue_blocks |-> issue_blocks]
    /\ rdTimes = <<>>
    /\ rdOut = <<>>
    /\ ImpedimentIdle
    /\ ColourIdle
    /\ ExtIdle
    /\ ValidatorIdle
    /\ MentionIdle
    /\ ConfigDefault
    /\ RecentIdle
    /\ RunIdle
    /\ EmailIdle

NextRender == Render

SpecRender == InitRender /\ [][NextRender]_vars

InitImpediment ==
    /\ iIssue \in ImpedimentIssues
    /\ iCalled = FALSE
    /\ iResult = FALSE
    /\ RenderIdle
    /\ ColourIdle
    /\ ExtIdle
    /\ ValidatorIdle
    /\ MentionIdle
    /\ ConfigDefault
    /\ RecentIdle
    /\ RunIdle
    /\ EmailIdle

NextImpediment == IsImpediment

SpecImpediment == InitImpediment /\ [][NextImpediment]_vars

InitColour ==
    /\ kColour \in ColourTokens
    /\ kSubtle \in BOOLEAN
    /\ kCalled = FALSE
    /\ kStyle = <<>>
    /\ RenderIdle
    /\ ImpedimentIdle
    /\ ExtIdle
    /\ ValidatorIdle
    /\ MentionIdle
    /\ ConfigDefault
    /\ RecentIdle
    /\ RunIdle
    /\ EmailIdle

NextColour == ApplyStatusStyles

SpecColour == InitColour /\ [][NextColour]_vars

InitComment ==
    /\ \E body \in CommentBodies, renderedBody \in RenderedBodies :
          aComment = [body |-> body, renderedBody |-> renderedBody]
    /\ aCommentText = NotCalled
    /\ aCommentBody = NotCalled
    /\ aWorkflowAdf = NotCalled
    /\ aProviderAdf = NotCalled
    /\ FieldIdle
    /\ PersistIdle
    /\ SearchIdle
    /\ PageIdle
    /\ RenderIdle
    /\ ImpedimentIdle
    /\ ColourIdle
    /\ ValidatorIdle
    /\ MentionIdle
    /\ ConfigDefault
    /\ RecentIdle
    /\ RunIdle
    /\ EmailIdle

NextComment ==
    \/ CommentText
    \/ ExtractCommentBody
    \/ WorkflowExtractAdfText
    \/ ProviderExtractAdfText

SpecComment == InitComment /\ [][NextComment]_vars

InitField ==
    /\ \E product \in FieldValues, customer \in CustomerValues :
          fIssue = [customfield_10719 |-> product, customfield_23301 |-> customer]
    /\ fCalled = FALSE
    /\ fValues = <<>>
    /\ fProduct = NoText
    /\ fCustomer = NoText
    /\ AdfIdle
    /\ PersistIdle
    /\ SearchIdle
    /\ PageIdle
    /\ RenderIdle
    /\ ImpedimentIdle
    /\ ColourIdle
    /\ ValidatorIdle
    /\ MentionIdle
    /\ ConfigDefault
    /\ RecentIdle
    /\ RunIdle
    /\ EmailIdle

NextField == ExtractFieldValues \/ ProductNames \/ CustomerNames

SpecField == InitField /\ [][NextField]_vars

InitPersist ==
    /\ pText \in PersistTexts
    /\ pKey \in PersistKeys
    /\ pPrompt = NotWritten
    /\ pResponse = NotWritten
    /\ pBody = NotWritten
    /\ AdfIdle
    /\ FieldIdle
    /\ SearchIdle
    /\ PageIdle
    /\ RenderIdle
    /\ ImpedimentIdle
    /\ ColourIdle
    /\ ValidatorIdle
    /\ MentionIdle
    /\ ConfigDefault
    /\ RecentIdle
    /\ RunIdle
    /\ EmailIdle

NextPersist == PersistPrompt \/ PersistLlmResponse \/ PersistConfluenceBody

SpecPersist == InitPersist /\ [][NextPersist]_vars

InitSearch ==
    /\ \E n \in ServerSizes : jServer = [i \in 1..n |-> i]
    /\ jPageSize \in ServerPageSizes
    /\ jStartAt = 0
    /\ jIssues = <<>>
    /\ jBatch = 0
    /\ jTotal = 0
    /\ jRequests = <<>>
    /\ jPc = "loop"
    /\ AdfIdle
    /\ FieldIdle
    /\ PersistIdle
    /\ PageIdle
    /\ RenderIdle
    /\ ImpedimentIdle
    /\ ColourIdle
    /\ ValidatorIdle
    /\ MentionIdle
    /\ ConfigDefault
    /\ RecentIdle
    /\ RunIdle
    /\ EmailIdle

NextSearch == SearchPage

\* the loop runs on its own: each iteration that can be taken is taken
SpecSearch == InitSearch /\ [][NextSearch]_vars /\ WF_vars(NextSearch)

InitPage ==
    /\ \E pages \in ServerPages :
          sPages = [k \in 1..Len(pages) |->
                       Page(k, pages[k].space, pages[k].title, pages[k].ancestors,
                            pages[k].number)]
    /\ sBefore = sPages
    /\ sArgs = [space_key |-> "S", parent_page_id |-> 17, title |-> "T",
                body_storage |-> "new"]
    /\ sExisting = NoPage
    /\ sPc = "fetch"
    /\ AdfIdle
    /\ FieldIdle
    /\ PersistIdle
    /\ SearchIdle
    /\ RenderIdle
    /\ ImpedimentIdle
    /\ ColourIdle
    /\ ValidatorIdle
    /\ MentionIdle
    /\ ConfigDefault
    /\ RecentIdle
    /\ RunIdle
    /\ EmailIdle

NextPage == FetchPage \/ UpdatePage \/ CreateNewPage

SpecPage == InitPage /\ [][NextPage]_vars

=============================================================================
